---- MODULE Spec2Model ----
(***************************************************************************)
(* Model of the memory-benchmark evaluation harness:                       *)
(*   evaluation/src/memzero/add.py     (MemoryADD:    Mem0 ingestion)      *)
(*   evaluation/src/memzero/search.py  (MemorySearch: Mem0 answering)      *)
(*   evaluation/src/zep/search.py      (ZepSearch:    Zep answering)       *)
(*   evaluation/src/zep/add.py         (ZepAdd:       Zep ingestion)       *)
(*   evaluation/calculate_statistics.py (the statistics script)            *)
(*                                                                         *)
(* Ten specifications share the module:                                    *)
(*   SpecRetry   the retry loops of add_memory and of the two              *)
(*               search_memory methods, one backend call per step;         *)
(*   SpecAnswer  process_data_file (Mem0, Zep) and                         *)
(*               process_questions_parallel with the result store and the  *)
(*               output file;                                              *)
(*   SpecPool    process_all_conversations and its thread pool;            *)
(*   SpecConversation  process_conversation of one conversation: the       *)
(*               segments, the two perspective lists, the two threads of    *)
(*               a segment and their add_memory calls;                     *)
(*   SpecIngestion  process_all_conversations of Mem0 (the pool) or of Zep *)
(*               (evaluation/src/zep/add.py, ZepAdd);                      *)
(*   SpecQuestion  process_question and answer_question of MemorySearch    *)
(*               and of ZepSearch with the values they pass on: the user   *)
(*               ids, the retrieved memories, the rendered prompt, the     *)
(*               response and the result record;                           *)
(*   SpecWorkerPools  the pool of process_all_conversations or the         *)
(*               answering pipeline with the pool of                       *)
(*               process_questions_parallel;                               *)
(*   SpecStatistics  collect_metrics and calculate_stats over a results    *)
(*               file;                                                     *)
(*   SpecKeys    the key loop of process_conversation and the user ids of  *)
(*               ingestion and search, with strings as character           *)
(*               sequences;                                                *)
(*   SpecTermination  add_memory, process_conversation and                 *)
(*               process_all_conversations of Mem0 under weak fairness.    *)
(* The variables of the components a specification does not run keep their *)
(* idle values.                                                            *)
(***************************************************************************)
EXTENDS Integers, Sequences, FiniteSets, TLC

VARIABLES
    \* ---- retry wrappers
    wrapper,        \* which method runs: add_memory / search_memory / zep_search_memory
    max_retries,    \* the attempt budget (retries of add_memory, max_retries of search_memory)
    rpc,            \* position inside the wrapper
    retries,        \* the loop counter (attempt of add_memory, retries of search_memory)
    calls,          \* the backend calls made so far, in order: [op, ok]
    sleeps,         \* the number of time.sleep calls made so far
    outcome,        \* how the wrapper ended: what it returned or raised
    \* ---- answering pipeline
    entry,          \* the entry point that runs
    data,           \* the dataset: per conversation its qa list, a question being its category
    category,       \* self.category, the category filter (None: no filter)
    max_workers,    \* max_workers of process_questions_parallel
    alive,          \* FALSE once the process has been stopped
    tpc,            \* position of each thread (0: the calling thread, 1..: pool workers)
    tq,             \* the question each thread is processing, <<idx, j>>
    ci,             \* process_data_file: idx of the conversation loop
    qi,             \* process_data_file: position in the qa list (from 1)
    results,        \* self.results: conversation index -> list of records
    file,           \* the output file: [st, doc]
    fut,            \* process_questions_parallel: state of each submitted future
    collected,      \* process_questions_parallel: results the caller has consumed
    searched,       \* the memory searches issued: <<question, speaker>>
    identities,     \* the identity each search was issued against: <<question, user id>>
    answered,       \* the questions the completion service was called for
    wrote,          \* the questions whose processing opened the output file
    failed,         \* the questions that failed terminally
    \* ---- ingestion pool
    ing_data,       \* self.data of MemoryADD: per conversation, what its turns hold
    ing_workers,    \* max_workers of process_all_conversations
    ipc,            \* position of the caller of process_all_conversations
    futures,        \* the futures submitted so far, in submission order
    cpc,            \* position of each conversation inside process_conversation
    awaited,        \* the futures whose result() has returned
    caller_error,   \* the exception that reached the caller
    \* ---- ingestion of one conversation
    item,           \* the dataset item: speaker_a, speaker_b and the segments
    conv_idx,       \* idx, the index of the conversation
    batch_size,     \* self.batch_size
    run,            \* how many times process_conversation was called for the item
    deletes,        \* the delete_all calls of this run, in order: [user_id, ok]
    ppc,            \* position of process_conversation
    perror,         \* the exception process_conversation raised
    seg,            \* the segment the key loop is at (from 1)
    thr,            \* per segment and side, the thread running add_memories_for_speaker
    memories,       \* the backend: per user id, the batches added, in order
    \* ---- Zep ingestion
    zep_data,       \* self.data of ZepAdd
    zpc,            \* position inside process_all_conversations of ZepAdd
    zidx,           \* idx of its loop over the dataset
    zseg,           \* the segments of the conversation walked so far
    zchat,          \* the turns of the current segment added so far
    zcalls,         \* the calls made to the Zep client, in order
    zerror,         \* the exception that reached the caller
    zrun,           \* how many times main of zep/add.py has run with the same run_id
    \* ---- one question after the other through process_question
    q_entry,        \* whose process_question runs: MemorySearch's or ZepSearch's
    q_speakers,     \* the two speaker names of the conversation (Mem0)
    q_idx,          \* idx of the conversation the questions belong to
    context,        \* Zep answer_question: the context search_memory returned
    zep_result,     \* Zep process_question: the result record it built
    q_num,          \* how many questions process_question was called for
    val,            \* the question dictionary of the current call
    qpc,            \* position inside process_question / answer_question
    speaker_1_memories, \* answer_question: what the first search_memory returned
    speaker_2_memories, \* answer_question: what the second search_memory returned
    response,       \* answer_question: the content of the completion
    result,         \* process_question: the result record it built
    search_log,     \* the search_memory calls of this question that returned
    completions,    \* the calls of the completion service for this question
    \* ---- the statistics script
    stat_data,      \* the evaluated results: per conversation, its question records
    spc,            \* position inside main of calculate_statistics.py
    s_conv,         \* the conversations collect_metrics has gone through
    s_question,     \* the records of the current conversation it has gone through
    metrics_by_category, \* per group and metric, the values collected, in order
    all_statistics, \* per group and metric, what calculate_stats returned
    \* ---- keys and identities of the conversations of a Mem0 dataset
    k_items,        \* two entries of the dataset, each with its idx
    k_at,           \* the entry being ingested or searched
    kpc,            \* position inside process_conversation / process_data_file
    k_key,          \* the keys of conversation.keys() the loop has gone through
    k_errors,       \* the exceptions process_conversation raised, per entry
    k_calls,        \* the delete_all and add calls made to the backend, in order
    k_searches      \* the user ids process_data_file searched under

retryVars == <<wrapper, max_retries, rpc, retries, calls, sleeps, outcome>>

answerVars == <<entry, data, category, max_workers, alive, tpc, tq, ci, qi,
                results, file, fut, collected, searched, identities, answered, wrote, failed>>

poolVars == <<ing_data, ing_workers, ipc, futures, cpc, awaited, caller_error>>

convVars == <<item, conv_idx, batch_size, run, deletes, ppc, perror, seg, thr, memories>>

zepVars == <<zep_data, zpc, zidx, zseg, zchat, zcalls, zerror, zrun>>

questionVars == <<q_entry, q_speakers, q_idx, context, zep_result,
                  q_num, val, qpc, speaker_1_memories, speaker_2_memories,
                  response, result, search_log, completions>>

statVars == <<stat_data, spc, s_conv, s_question, metrics_by_category, all_statistics>>

keyVars == <<k_items, k_at, kpc, k_key, k_errors, k_calls, k_searches>>

vars == <<retryVars, answerVars, poolVars, convVars, zepVars, questionVars, statVars, keyVars>>

OutsideRetry == <<answerVars, poolVars, convVars, zepVars, questionVars, statVars, keyVars>>

OutsideAnswer == <<retryVars, poolVars, convVars, zepVars, questionVars, statVars, keyVars>>

OutsidePool == <<retryVars, answerVars, convVars, zepVars, questionVars, statVars, keyVars>>

OutsideConversation == <<retryVars, answerVars, poolVars, zepVars, questionVars, statVars, keyVars>>

OutsideZepAdd == <<retryVars, answerVars, poolVars, convVars, questionVars, statVars, keyVars>>

OutsideQuestion == <<retryVars, answerVars, poolVars, convVars, zepVars, statVars, keyVars>>

OutsideStatistics == <<retryVars, answerVars, poolVars, convVars, zepVars, questionVars, keyVars>>

OutsideKeys == <<retryVars, answerVars, poolVars, convVars, zepVars, questionVars, statVars>>

\* Largest attempt budget tried (the code's default is 3).
MaxRetries == 4

\* Largest dataset tried: conversations, and questions per conversation.
MaxConvs == 2

MaxQuestions == 2

\* Largest worker pool tried.
MaxWorkers == 2

\* Largest conversation tried: segments, and turns per segment.
MaxSegments == 2

MaxTurns == 2

\* Largest batch_size tried (the code's default is 2).
MaxBatch == 2

\* How many times process_conversation is called for the same item.
MaxRuns == 2

\* Longest list of memories a search returns (top_k; the code's default is 10).
MaxMemories == 2

\* add.py:79: the default of retries, which add_memories_for_speaker uses.
AddRetries == 3

Wrappers == {"add_memory", "search_memory", "zep_search_memory"}

\* The categories questions carry (the dataset uses 1..5).
Categories == {1, 2}

None == 0

ConvIdx == 0..(MaxConvs - 1)

Threads == 0..MaxWorkers

Workers == 1..MaxWorkers

SeqsUpTo(S, n) == UNION {[1..k -> S] : k \in 0..n}

NoOutcome == [kind |-> "pending", of |-> <<>>]

(***************************************************************************)
(* The retry wrappers.  A backend call is identified by its position in    *)
(* calls; the response (or the exception) of call number c is written c.  *)
(***************************************************************************)

PoolIdle ==
    /\ ing_data = <<>>
    /\ ing_workers = 0
    /\ ipc = "idle"
    /\ futures = <<>>
    /\ cpc = <<>>
    /\ awaited = 0
    /\ caller_error = <<>>

AnswerIdle ==
    /\ entry = "idle"
    /\ data = <<>>
    /\ category = None
    /\ max_workers = 0
    /\ alive = TRUE
    /\ tpc = [t \in Threads |-> "idle"]
    /\ tq = [t \in Threads |-> <<>>]
    /\ ci = 0
    /\ qi = 1
    /\ results = [i \in ConvIdx |-> <<>>]
    /\ file = [st |-> "absent", doc |-> {}]
    /\ fut = <<>>
    /\ collected = 0
    /\ searched = {}
    /\ identities = {}
    /\ answered = {}
    /\ wrote = {}
    /\ failed = {}

RetryIdle ==
    /\ wrapper = "none"
    /\ max_retries = 0
    /\ rpc = "idle"
    /\ retries = 0
    /\ calls = <<>>
    /\ sleeps = 0
    /\ outcome = NoOutcome

ConversationIdle ==
    /\ item = <<>>
    /\ conv_idx = 0
    /\ batch_size = 0
    /\ run = 0
    /\ deletes = <<>>
    /\ ppc = "idle"
    /\ perror = <<>>
    /\ seg = 0
    /\ thr = <<>>
    /\ memories = <<>>

ZepAddIdle ==
    /\ zep_data = <<>>
    /\ zpc = "idle"
    /\ zidx = 0
    /\ zseg = 0
    /\ zchat = 0
    /\ zcalls = <<>>
    /\ zerror = <<>>
    /\ zrun = 1

StatisticsIdle ==
    /\ stat_data = <<>>
    /\ spc = "idle"
    /\ s_conv = 0
    /\ s_question = 0
    /\ metrics_by_category = <<>>
    /\ all_statistics = <<>>

KeysIdle ==
    /\ k_items = <<>>
    /\ k_at = 0
    /\ kpc = "idle"
    /\ k_key = 0
    /\ k_errors = <<>>
    /\ k_calls = <<>>
    /\ k_searches = <<>>

QuestionIdle ==
    /\ q_entry = "idle"
    /\ q_speakers = <<>>
    /\ q_idx = 0
    /\ context = <<>>
    /\ zep_result = <<>>
    /\ q_num = 0
    /\ val = <<>>
    /\ qpc = "idle"
    /\ speaker_1_memories = <<>>
    /\ speaker_2_memories = <<>>
    /\ response = <<>>
    /\ result = <<>>
    /\ search_log = <<>>
    /\ completions = <<>>

InitRetry ==
    /\ AnswerIdle
    /\ PoolIdle
    /\ ConversationIdle
    /\ ZepAddIdle
    /\ QuestionIdle
    /\ StatisticsIdle
    /\ KeysIdle
    /\ wrapper \in Wrappers
    /\ max_retries \in 0..MaxRetries
    /\ rpc = "loop"
    /\ retries = 0
    /\ calls = <<>>
    /\ sleeps = 0
    /\ outcome = NoOutcome

BackendCall(op, ok) == [op |-> op, ok |-> ok]

add_memory_may_retry_always(a, budget) == a < budget

\* add.py:94: another attempt is left after a failure of attempt number a.
add_memory_may_retry(a, budget) == a < budget - 1

\* add.py:87-98, one iteration of `for attempt in range(retries)`.
add_memory_attempt ==
    /\ wrapper = "add_memory"
    /\ rpc = "loop"
    /\ retries < max_retries
    /\ \E ok \in BOOLEAN :
         LET c == Len(calls) + 1 IN
         /\ calls' = Append(calls, BackendCall("add", ok))
         /\ IF ok
              THEN \* `return`: the response of mem0_client.add is dropped
                   /\ rpc' = "returned"
                   /\ outcome' = [kind |-> "none", of |-> <<>>]
              ELSE IF add_memory_may_retry(retries, max_retries)
                     THEN /\ rpc' = "sleep"
                          /\ UNCHANGED outcome
                     ELSE /\ rpc' = "raised"
                          /\ outcome' = [kind |-> "error", of |-> <<c>>]
    /\ UNCHANGED <<wrapper, max_retries, retries, sleeps>>
    /\ UNCHANGED OutsideRetry

\* add.py:87: range(retries) is exhausted without a return or a raise, which
\* happens only for retries <= 0: the method falls off its end and returns None.
add_memory_loop_end ==
    /\ wrapper = "add_memory"
    /\ rpc = "loop"
    /\ ~(retries < max_retries)
    /\ rpc' = "returned"
    /\ outcome' = [kind |-> "none", of |-> <<>>]
    /\ UNCHANGED <<wrapper, max_retries, retries, calls, sleeps>>
    /\ UNCHANGED OutsideRetry

search_memory_exhausted_late(r, budget) == r > budget

\* search.py:81-84 (zep/search.py:92-95): after a failed attempt, with the
\* counter already incremented to r: raise when r >= max_retries, else sleep.
search_memory_exhausted(r, budget) == r >= budget

search_memory_failed(c) ==
    /\ retries' = retries + 1
    /\ IF search_memory_exhausted(retries + 1, max_retries)
         THEN /\ rpc' = "raised"
              /\ outcome' = [kind |-> "error", of |-> <<c>>]
         ELSE /\ rpc' = "sleep"
              /\ UNCHANGED outcome

\* memzero/search.py:55-84, one iteration of `while retries < max_retries`.
search_memory_attempt ==
    /\ wrapper = "search_memory"
    /\ rpc = "loop"
    /\ retries < max_retries
    /\ \E ok \in BOOLEAN :
         LET c == Len(calls) + 1 IN
         /\ calls' = Append(calls, BackendCall("search", ok))
         /\ IF ok
              THEN \* `break`, then lines 86-115 format the response of call c
                   /\ rpc' = "returned"
                   /\ outcome' = [kind |-> "value", of |-> <<c>>]
                   /\ UNCHANGED retries
              ELSE search_memory_failed(c)
    /\ UNCHANGED <<wrapper, max_retries, sleeps>>
    /\ UNCHANGED OutsideRetry

\* zep/search.py:77-84: the edges search of one attempt.
zep_search_edges ==
    /\ wrapper = "zep_search_memory"
    /\ rpc = "loop"
    /\ retries < max_retries
    /\ \E ok \in BOOLEAN :
         LET c == Len(calls) + 1 IN
         /\ calls' = Append(calls, BackendCall("edges", ok))
         /\ IF ok
              THEN /\ rpc' = "nodes"
                   /\ UNCHANGED <<retries, outcome>>
              ELSE search_memory_failed(c)
    /\ UNCHANGED <<wrapper, max_retries, sleeps>>
    /\ UNCHANGED OutsideRetry

\* zep/search.py:85-89: the nodes search of the same attempt, then
\* compose_search_context on both responses and `break`.
zep_search_nodes ==
    /\ wrapper = "zep_search_memory"
    /\ rpc = "nodes"
    /\ \E ok \in BOOLEAN :
         LET c == Len(calls) + 1 IN
         /\ calls' = Append(calls, BackendCall("nodes", ok))
         /\ IF ok
              THEN /\ rpc' = "returned"
                   /\ outcome' = [kind |-> "value", of |-> <<c - 1, c>>]
                   /\ UNCHANGED retries
              ELSE search_memory_failed(c)
    /\ UNCHANGED <<wrapper, max_retries, sleeps>>
    /\ UNCHANGED OutsideRetry

\* search.py:55 / zep/search.py:77: the while loop is left without a break,
\* which happens only for max_retries <= 0; the code after the loop then
\* reads a local (memories, context) that was never bound.
search_memory_loop_end ==
    /\ wrapper \in {"search_memory", "zep_search_memory"}
    /\ rpc = "loop"
    /\ ~(retries < max_retries)
    /\ rpc' = "raised"
    /\ outcome' = [kind |-> "unbound", of |-> <<>>]
    /\ UNCHANGED <<wrapper, max_retries, retries, calls, sleeps>>
    /\ UNCHANGED OutsideRetry

\* add.py:95-96, search.py:84, zep/search.py:95: time.sleep, then the next
\* iteration (for add_memory the loop variable advances here).
retry_sleep ==
    /\ rpc = "sleep"
    /\ sleeps' = sleeps + 1
    /\ rpc' = "loop"
    /\ retries' = IF wrapper = "add_memory" THEN retries + 1 ELSE retries
    /\ UNCHANGED <<wrapper, max_retries, calls, outcome>>
    /\ UNCHANGED OutsideRetry

NextRetry ==
    \/ add_memory_attempt
    \/ add_memory_loop_end
    \/ search_memory_attempt
    \/ zep_search_edges
    \/ zep_search_nodes
    \/ search_memory_loop_end
    \/ retry_sleep

SpecRetry == InitRetry /\ [][NextRetry]_vars

(***************************************************************************)
(* The answering pipeline: the result store, the output file and the       *)
(* entry points that answer questions.                                     *)
(***************************************************************************)

Entries == {"mem0_process_data_file", "zep_process_data_file",
            "process_questions_parallel"}

\* search.py:19-38, zep/search.py:35-44 (construction) and the arguments of
\* the entry point: the store is empty, no output file has been written.
InitAnswerInputs ==
    /\ entry \in Entries
    /\ data \in SeqsUpTo(SeqsUpTo(Categories, MaxQuestions), MaxConvs)
    /\ entry = "process_questions_parallel" => Len(data) = 1
    /\ category \in {None} \cup Categories
    /\ entry = "zep_process_data_file" => category = None
    /\ max_workers \in 1..MaxWorkers
    /\ entry # "process_questions_parallel" => max_workers = 1
    /\ alive = TRUE
    /\ tpc = [t \in Threads |-> IF t = 0 THEN "start" ELSE "idle"]
    /\ tq = [t \in Threads |-> <<>>]
    /\ ci = 0
    /\ qi = 1
    /\ results = [i \in ConvIdx |-> <<>>]
    /\ file = [st |-> "absent", doc |-> {}]
    /\ fut = <<>>
    /\ collected = 0
    /\ searched = {}
    /\ identities = {}
    /\ answered = {}
    /\ wrote = {}
    /\ failed = {}

\* The qa list of conversation idx (idx counts from 0).
qa(idx) == data[idx + 1]

\* search.py:188-204, zep/search.py:116-126: the record of one question.
Record(q) == [question |-> q, category |-> qa(q[1])[q[2]]]

\* defaultdict(list): a key exists once self.results[idx] has been touched,
\* which the code does only to append.
Keys(res) == {i \in DOMAIN res : res[i] # <<>>}

\* json.dump(self.results, f, indent=4): an object whose keys are the
\* conversation indices as strings, each with its list of records.
json_dump(res) == [st |-> "doc", doc |-> {<<ToString(i), res[i]>> : i \in Keys(res)}]

\* open(path, "w"): the file exists and is empty until something is written.
open_w == [st |-> "empty", doc |-> {}]

\* The records a reader finds in the output file.
FileRecords(f) == UNION {{p[2][k] : k \in DOMAIN p[2]} : p \in f.doc}

StoreRecords(res) == UNION {{res[i][k] : k \in DOMAIN res[i]} : i \in DOMAIN res}

Running(t) == alive /\ tpc[t] \notin {"idle", "returned", "raised"}

\* The process is stopped (killed, power loss) at an arbitrary moment.
process_stop ==
    /\ alive
    /\ entry \in Entries
    /\ tpc[0] \notin {"returned", "raised"}
    /\ alive' = FALSE
    /\ UNCHANGED <<entry, data, category, max_workers, tpc, tq, ci, qi, results,
                   file, fut, collected, searched, identities, answered, wrote, failed>>
    /\ UNCHANGED OutsideAnswer

(* ------------------------------------------------------------------ *)
(* An exception leaves the question of thread t.                       *)
(*   process_data_file has no try/except: it leaves the method.        *)
(*   process_questions_parallel: the worker stores it in the future.   *)
(* ------------------------------------------------------------------ *)
QuestionRaises(t) ==
    /\ failed' = failed \cup {tq[t]}
    /\ IF t = 0
         THEN /\ tpc' = [tpc EXCEPT ![t] = "raised"]
              /\ UNCHANGED <<fut, tq>>
         ELSE /\ tpc' = [tpc EXCEPT ![t] = "idle"]
              /\ fut' = [fut EXCEPT ![tq[t][2]] = "failed"]
              /\ tq' = [tq EXCEPT ![t] = <<>>]

\* search.py:231-232: the identity of one speaker of conversation idx,
\* f"{speaker}_{idx}" with the name taken from the conversation at idx.
process_data_file_user_id(speaker, idx_) == <<speaker, idx_>>

\* zep/search.py:79: the user of conversation idx,
\* f"run_id_{run_id}_experiment_user_{idx}", idx being the one process_data_file
\* passes down (zep/search.py:165).
zep_search_memory_user_id(idx_) == <<"user", idx_>>

\* search.py:125-130: answer_question searches the memory of one speaker
\* (search_memory, retries inside); it returns or raises after its retries.
answer_question_search(t, speaker, at, next) ==
    /\ Running(t)
    /\ entry \in {"mem0_process_data_file", "process_questions_parallel"}
    /\ tpc[t] = at
    /\ searched' = searched \cup {<<tq[t], speaker>>}
    /\ identities' = identities \cup {<<tq[t], process_data_file_user_id(speaker, ci)>>}
    /\ \E ok \in BOOLEAN :
         IF ok
           THEN /\ tpc' = [tpc EXCEPT ![t] = next]
                /\ UNCHANGED <<failed, fut, tq>>
           ELSE QuestionRaises(t)
    /\ UNCHANGED <<entry, data, category, max_workers, alive, ci, qi, results,
                   file, collected, answered, wrote>>
    /\ UNCHANGED OutsideAnswer

answer_question_search_a == \E t \in Threads : answer_question_search(t, "a", "search_a", "search_b")

answer_question_search_b == \E t \in Threads : answer_question_search(t, "b", "search_b", "llm")

\* search.py:135-161: the prompt is rendered and the completion service is
\* called once, without retry.
answer_question_generate ==
    \E t \in Threads :
      /\ Running(t)
      /\ entry \in {"mem0_process_data_file", "process_questions_parallel"}
      /\ tpc[t] = "llm"
      /\ answered' = answered \cup {tq[t]}
      /\ \E ok \in BOOLEAN :
           IF ok
             THEN /\ tpc' = [tpc EXCEPT ![t] = "pq_open"]
                  /\ UNCHANGED <<failed, fut, tq>>
             ELSE QuestionRaises(t)
      /\ UNCHANGED <<entry, data, category, max_workers, alive, ci, qi, results,
                     file, collected, searched, identities, wrote>>
      /\ UNCHANGED OutsideAnswer

\* A thread at pc `at` opens the output file for writing and goes to `next`.
OpenOutput(t, at, next) ==
    /\ Running(t)
    /\ tpc[t] = at
    /\ file' = open_w
    /\ wrote' = IF tq[t] = <<>> THEN wrote ELSE wrote \cup {tq[t]}
    /\ tpc' = [tpc EXCEPT ![t] = next]
    /\ UNCHANGED <<entry, data, category, max_workers, alive, tq, ci, qi, results,
                   fut, collected, searched, identities, answered, failed>>
    /\ UNCHANGED OutsideAnswer

\* search.py:207: process_question opens the output file ...
process_question_open == \E t \in Threads : OpenOutput(t, "pq_open", "pq_dump")

\* search.py:208-210: ... dumps the store, which does not hold the record of
\* this question yet, and returns the record.
process_question_dump ==
    \E t \in Threads :
      /\ Running(t)
      /\ tpc[t] = "pq_dump"
      /\ file' = json_dump(results)
      /\ tpc' = [tpc EXCEPT ![t] = IF t = 0 THEN "append" ELSE "psq_open"]
      /\ UNCHANGED <<entry, data, category, max_workers, alive, tq, ci, qi, results,
                     fut, collected, searched, identities, answered, wrote, failed>>
      /\ UNCHANGED OutsideAnswer

(* ------------------------------------------------------------------ *)
(* MemorySearch.process_data_file                                      *)
(* ------------------------------------------------------------------ *)

\* search.py:238: the category filter skips the question.
Skips(cat) == category # None /\ cat # category

\* search.py:220-223: the dataset is loaded.
mem0_process_data_file_start ==
    /\ alive
    /\ entry = "mem0_process_data_file"
    /\ tpc[0] = "start"
    /\ tpc' = [tpc EXCEPT ![0] = "loop"]
    /\ UNCHANGED <<entry, data, category, max_workers, alive, tq, ci, qi, results,
                   file, fut, collected, searched, identities, answered, wrote, failed>>
    /\ UNCHANGED OutsideAnswer

\* search.py:225-241: one step of the two nested loops: the next
\* conversation, a question skipped by the filter, a question handed to
\* process_question, or the end of the dataset.
mem0_process_data_file_loop ==
    /\ alive
    /\ entry = "mem0_process_data_file"
    /\ tpc[0] = "loop"
    /\ IF ci >= Len(data)
         THEN /\ tpc' = [tpc EXCEPT ![0] = "final_open"]
              /\ tq' = [tq EXCEPT ![0] = <<>>]
              /\ UNCHANGED <<ci, qi>>
         ELSE IF qi > Len(qa(ci))
           THEN /\ ci' = ci + 1
                /\ qi' = 1
                /\ tq' = [tq EXCEPT ![0] = <<>>]
                /\ UNCHANGED tpc
           ELSE IF Skips(qa(ci)[qi])
             THEN /\ qi' = qi + 1
                  /\ UNCHANGED <<ci, tpc, tq>>
             ELSE /\ tq' = [tq EXCEPT ![0] = <<ci, qi>>]
                  /\ tpc' = [tpc EXCEPT ![0] = "search_a"]
                  /\ UNCHANGED <<ci, qi>>
    /\ UNCHANGED <<entry, data, category, max_workers, alive, results,
                   file, fut, collected, searched, identities, answered, wrote, failed>>
    /\ UNCHANGED OutsideAnswer

Appended_under_first_key(res, idx, r) == [res EXCEPT ![0] = Append(@, r)]

Appended_at_front(res, idx, r) == [res EXCEPT ![idx] = <<r>> \o @]

\* self.results[idx].append(result)
Appended(res, idx, r) == [res EXCEPT ![idx] = Append(@, r)]

mem0_process_data_file_append_unsaved ==
    /\ alive
    /\ entry = "mem0_process_data_file"
    /\ tpc[0] = "append"
    /\ results' = Appended(results, ci, Record(tq[0]))
    /\ tpc' = [tpc EXCEPT ![0] = "loop"]
    /\ qi' = qi + 1
    /\ UNCHANGED <<entry, data, category, max_workers, alive, tq, ci,
                   file, fut, collected, searched, identities, answered, wrote, failed>>
    /\ UNCHANGED OutsideAnswer

\* search.py:242: the record is appended to the store; the flush follows.
mem0_process_data_file_append ==
    /\ alive
    /\ entry = "mem0_process_data_file"
    /\ tpc[0] = "append"
    /\ results' = Appended(results, ci, Record(tq[0]))
    /\ tpc' = [tpc EXCEPT ![0] = "flush_open"]
    /\ UNCHANGED <<entry, data, category, max_workers, alive, tq, ci, qi,
                   file, fut, collected, searched, identities, answered, wrote, failed>>
    /\ UNCHANGED OutsideAnswer

\* search.py:245: the flush after the append opens the output file ...
mem0_process_data_file_flush_open ==
    /\ entry = "mem0_process_data_file"
    /\ OpenOutput(0, "flush_open", "flush_dump")

\* Writes the whole store, then goes on with the next question.
DumpStore(at, next, step) ==
    /\ alive
    /\ tpc[0] = at
    /\ file' = json_dump(results)
    /\ tpc' = [tpc EXCEPT ![0] = next]
    /\ qi' = qi + step
    /\ UNCHANGED <<entry, data, category, max_workers, alive, tq, ci, results,
                   fut, collected, searched, identities, answered, wrote, failed>>
    /\ UNCHANGED OutsideAnswer

\* search.py:246: ... and dumps the whole store.
mem0_process_data_file_flush_dump ==
    /\ entry = "mem0_process_data_file"
    /\ DumpStore("flush_dump", "loop", 1)

\* search.py:249: the final save opens the output file ...
mem0_process_data_file_final_open ==
    /\ entry = "mem0_process_data_file"
    /\ OpenOutput(0, "final_open", "final_dump")

\* search.py:250: ... dumps the store, and the method returns.
mem0_process_data_file_final_dump ==
    /\ entry = "mem0_process_data_file"
    /\ DumpStore("final_dump", "returned", 0)

(* ------------------------------------------------------------------ *)
(* ZepSearch.process_data_file                                         *)
(* ------------------------------------------------------------------ *)

\* zep/search.py:157-158: the dataset is loaded.
zep_process_data_file_start ==
    /\ alive
    /\ entry = "zep_process_data_file"
    /\ tpc[0] = "start"
    /\ tpc' = [tpc EXCEPT ![0] = "loop"]
    /\ UNCHANGED <<entry, data, category, max_workers, alive, tq, ci, qi, results,
                   file, fut, collected, searched, identities, answered, wrote, failed>>
    /\ UNCHANGED OutsideAnswer

\* zep/search.py:160-166: one step of the two nested loops (no filter).
zep_process_data_file_loop ==
    /\ alive
    /\ entry = "zep_process_data_file"
    /\ tpc[0] = "loop"
    /\ IF ci >= Len(data)
         THEN /\ tpc' = [tpc EXCEPT ![0] = "final_open"]
              /\ tq' = [tq EXCEPT ![0] = <<>>]
              /\ UNCHANGED <<ci, qi>>
         ELSE IF qi > Len(qa(ci))
           THEN /\ ci' = ci + 1
                /\ qi' = 1
                /\ tq' = [tq EXCEPT ![0] = <<>>]
                /\ UNCHANGED tpc
           ELSE /\ tq' = [tq EXCEPT ![0] = <<ci, qi>>]
                /\ tpc' = [tpc EXCEPT ![0] = "zep_search"]
                /\ UNCHANGED <<ci, qi>>
    /\ UNCHANGED <<entry, data, category, max_workers, alive, results,
                   file, fut, collected, searched, identities, answered, wrote, failed>>
    /\ UNCHANGED OutsideAnswer

\* zep/search.py:137: answer_question searches the graph of the conversation's
\* user (search_memory, retries inside).
zep_answer_question_search ==
    /\ Running(0)
    /\ entry = "zep_process_data_file"
    /\ tpc[0] = "zep_search"
    /\ searched' = searched \cup {<<tq[0], "user">>}
    /\ identities' = identities \cup {<<tq[0], zep_search_memory_user_id(ci)>>}
    /\ \E ok \in BOOLEAN :
         IF ok
           THEN /\ tpc' = [tpc EXCEPT ![0] = "zep_llm"]
                /\ UNCHANGED <<failed, fut, tq>>
           ELSE QuestionRaises(0)
    /\ UNCHANGED <<entry, data, category, max_workers, alive, ci, qi, results,
                   file, collected, answered, wrote>>
    /\ UNCHANGED OutsideAnswer

\* zep/search.py:139-148: the completion service is called once; the record
\* is built by process_question (116-128).
zep_answer_question_generate ==
    /\ Running(0)
    /\ entry = "zep_process_data_file"
    /\ tpc[0] = "zep_llm"
    /\ answered' = answered \cup {tq[0]}
    /\ \E ok \in BOOLEAN :
         IF ok
           THEN /\ tpc' = [tpc EXCEPT ![0] = "append"]
                /\ UNCHANGED <<failed, fut, tq>>
           ELSE QuestionRaises(0)
    /\ UNCHANGED <<entry, data, category, max_workers, alive, ci, qi, results,
                   file, collected, searched, identities, wrote>>
    /\ UNCHANGED OutsideAnswer

\* zep/search.py:167: the record is appended to the store.
zep_process_data_file_append ==
    /\ alive
    /\ entry = "zep_process_data_file"
    /\ tpc[0] = "append"
    /\ results' = Appended(results, ci, Record(tq[0]))
    /\ tpc' = [tpc EXCEPT ![0] = "flush_open"]
    /\ UNCHANGED <<entry, data, category, max_workers, alive, tq, ci, qi,
                   file, fut, collected, searched, identities, answered, wrote, failed>>
    /\ UNCHANGED OutsideAnswer

\* zep/search.py:170-171: the flush after the append.
zep_process_data_file_flush_open ==
    /\ entry = "zep_process_data_file"
    /\ OpenOutput(0, "flush_open", "flush_dump")

zep_process_data_file_flush_dump ==
    /\ entry = "zep_process_data_file"
    /\ DumpStore("flush_dump", "loop", 1)

\* zep/search.py:174-175: the final save, then the method returns.
zep_process_data_file_final_open ==
    /\ entry = "zep_process_data_file"
    /\ OpenOutput(0, "final_open", "final_dump")

zep_process_data_file_final_dump ==
    /\ entry = "zep_process_data_file"
    /\ DumpStore("final_dump", "returned", 0)

(* ------------------------------------------------------------------ *)
(* MemorySearch.process_questions_parallel                             *)
(* ------------------------------------------------------------------ *)

Pending == {j \in DOMAIN fut : fut[j] = "pending"}

Min(S) == CHOOSE x \in S : \A y \in S : x <= y

\* search.py:267-269: executor.map submits one future per element of qa_list,
\* in list order, before any result is consumed.
process_questions_parallel_submit ==
    /\ alive
    /\ entry = "process_questions_parallel"
    /\ tpc[0] = "start"
    /\ fut' = [j \in 1..Len(qa(0)) |-> "pending"]
    /\ collected' = 0
    /\ tpc' = [tpc EXCEPT ![0] = "collect"]
    /\ UNCHANGED <<entry, data, category, max_workers, alive, tq, ci, qi, results,
                   file, searched, identities, answered, wrote, failed>>
    /\ UNCHANGED OutsideAnswer

\* search.py:260-261: a free worker of the pool (at most max_workers threads,
\* a first-in first-out work queue) starts process_single_question.
process_single_question_start ==
    \E w \in 1..max_workers :
      /\ alive
      /\ entry = "process_questions_parallel"
      /\ tpc[w] = "idle"
      /\ Pending # {}
      /\ LET j == Min(Pending) IN
           /\ fut' = [fut EXCEPT ![j] = "running"]
           /\ tq' = [tq EXCEPT ![w] = <<0, j>>]
      /\ tpc' = [tpc EXCEPT ![w] = "search_a"]
      /\ UNCHANGED <<entry, data, category, max_workers, alive, ci, qi, results,
                     file, collected, searched, identities, answered, wrote, failed>>
      /\ UNCHANGED OutsideAnswer

\* search.py:263: process_single_question opens the output file ...
process_single_question_open ==
    /\ entry = "process_questions_parallel"
    /\ \E w \in Workers : OpenOutput(w, "psq_open", "psq_dump")

\* search.py:264-265: ... dumps the store and returns the record, which
\* becomes the result of the future.
process_single_question_dump ==
    \E w \in Workers :
      /\ Running(w)
      /\ entry = "process_questions_parallel"
      /\ tpc[w] = "psq_dump"
      /\ file' = json_dump(results)
      /\ fut' = [fut EXCEPT ![tq[w][2]] = "done"]
      /\ tq' = [tq EXCEPT ![w] = <<>>]
      /\ tpc' = [tpc EXCEPT ![w] = "idle"]
      /\ UNCHANGED <<entry, data, category, max_workers, alive, ci, qi, results,
                     collected, searched, identities, answered, wrote, failed>>
      /\ UNCHANGED OutsideAnswer

process_questions_parallel_no_wait ==
    /\ alive
    /\ entry = "process_questions_parallel"
    /\ tpc[0] = "collect"
    /\ tpc' = [tpc EXCEPT ![0] = "final_open"]
    /\ UNCHANGED <<entry, data, category, max_workers, alive, tq, ci, qi, results,
                   file, fut, collected, searched, identities, answered, wrote, failed>>
    /\ UNCHANGED OutsideAnswer

\* search.py:268-270: list(...) consumes the results of executor.map in
\* submission order, waiting for each future.  When a future raised, the
\* iterator cancels the futures not started yet and the exception leaves the
\* with block.
process_questions_parallel_collect ==
    /\ alive
    /\ entry = "process_questions_parallel"
    /\ tpc[0] = "collect"
    /\ LET k == collected + 1 IN
         IF k > Len(fut)
           THEN /\ tpc' = [tpc EXCEPT ![0] = "join"]
                /\ UNCHANGED <<fut, collected>>
           ELSE \/ /\ fut[k] = "done"
                   /\ collected' = k
                   /\ UNCHANGED <<fut, tpc>>
                \/ /\ fut[k] = "failed"
                   /\ fut' = [j \in DOMAIN fut |->
                                IF fut[j] = "pending" THEN "cancelled" ELSE fut[j]]
                   /\ tpc' = [tpc EXCEPT ![0] = "join_raise"]
                   /\ UNCHANGED collected
    /\ UNCHANGED <<entry, data, category, max_workers, alive, tq, ci, qi, results,
                   file, searched, identities, answered, wrote, failed>>
    /\ UNCHANGED OutsideAnswer

\* The pool has no work left: nothing queued, every worker idle.
PoolJoined == Pending = {} /\ \A w \in Workers : tpc[w] = "idle"

\* search.py:267: leaving the with block shuts the pool down and waits for
\* its workers; then the final save follows, or the exception goes on to
\* the caller.
process_questions_parallel_join ==
    /\ alive
    /\ entry = "process_questions_parallel"
    /\ tpc[0] \in {"join", "join_raise"}
    /\ PoolJoined
    /\ tpc' = [tpc EXCEPT ![0] = IF tpc[0] = "join" THEN "final_open" ELSE "raised"]
    /\ UNCHANGED <<entry, data, category, max_workers, alive, tq, ci, qi, results,
                   file, fut, collected, searched, identities, answered, wrote, failed>>
    /\ UNCHANGED OutsideAnswer

\* search.py:273: the final save opens the output file ...
process_questions_parallel_final_open ==
    /\ entry = "process_questions_parallel"
    /\ OpenOutput(0, "final_open", "final_dump")

\* search.py:274-276: ... dumps the store; the list of records is returned.
process_questions_parallel_final_dump ==
    /\ entry = "process_questions_parallel"
    /\ DumpStore("final_dump", "returned", 0)

NextAnswer ==
    \/ process_stop
    \/ answer_question_search_a
    \/ answer_question_search_b
    \/ answer_question_generate
    \/ process_question_open
    \/ process_question_dump
    \/ mem0_process_data_file_start
    \/ mem0_process_data_file_loop
    \/ mem0_process_data_file_append
    \/ mem0_process_data_file_flush_open
    \/ mem0_process_data_file_flush_dump
    \/ mem0_process_data_file_final_open
    \/ mem0_process_data_file_final_dump
    \/ zep_process_data_file_start
    \/ zep_process_data_file_loop
    \/ zep_answer_question_search
    \/ zep_answer_question_generate
    \/ zep_process_data_file_append
    \/ zep_process_data_file_flush_open
    \/ zep_process_data_file_flush_dump
    \/ zep_process_data_file_final_open
    \/ zep_process_data_file_final_dump
    \/ process_questions_parallel_submit
    \/ process_single_question_start
    \/ process_single_question_open
    \/ process_single_question_dump
    \/ process_questions_parallel_collect
    \/ process_questions_parallel_join
    \/ process_questions_parallel_final_open
    \/ process_questions_parallel_final_dump

InitAnswer ==
    /\ InitAnswerInputs
    /\ RetryIdle
    /\ PoolIdle
    /\ ConversationIdle
    /\ ZepAddIdle
    /\ QuestionIdle
    /\ StatisticsIdle
    /\ KeysIdle

SpecAnswer == InitAnswer /\ [][NextAnswer]_vars


(***************************************************************************)
(* Mem0 ingestion: process_all_conversations and its thread pool.  Of a    *)
(* conversation the pool sees only how process_conversation ends: it       *)
(* raises when a delete_all call fails or when a turn has an unknown       *)
(* speaker, and returns otherwise (the threads that add the memories keep  *)
(* their exceptions to themselves).                                        *)
(***************************************************************************)

ConversationKinds == {"two_speakers", "unknown_speaker"}

\* add.py:46-66 (construction, load_data) and the argument max_workers.
InitPoolInputs ==
    /\ ing_data \in SeqsUpTo(ConversationKinds, MaxConvs)
    /\ ing_workers \in 1..MaxWorkers
    /\ ipc = "start"
    /\ futures = <<>>
    /\ cpc = [j \in DOMAIN ing_data |-> "queued"]
    /\ awaited = 0
    /\ caller_error = <<>>

process_all_conversations_no_data_unchecked ==
    /\ ipc = "start"
    /\ ing_data = <<>>
    /\ ipc' = "returned"
    /\ UNCHANGED <<ing_data, ing_workers, futures, cpc, awaited, caller_error>>
    /\ UNCHANGED OutsidePool

\* add.py:176-177: no dataset, or an empty one.
process_all_conversations_no_data ==
    /\ ipc = "start"
    /\ ing_data = <<>>
    /\ ipc' = "raised"
    /\ caller_error' = <<"ValueError", "No data loaded">>
    /\ UNCHANGED <<ing_data, ing_workers, futures, cpc, awaited>>
    /\ UNCHANGED OutsidePool

\* add.py:178-179: the list comprehension submits the next conversation, or
\* is through with the dataset.
process_all_conversations_submit ==
    /\ ipc = "start"
    /\ ing_data # <<>>
    /\ IF Len(futures) < Len(ing_data)
         THEN /\ futures' = Append(futures, "pending")
              /\ UNCHANGED ipc
         ELSE /\ ipc' = "await"
              /\ UNCHANGED futures
    /\ UNCHANGED <<ing_data, ing_workers, cpc, awaited, caller_error>>
    /\ UNCHANGED OutsidePool

InPool == {j \in DOMAIN futures : futures[j] = "running"}

Queued == {j \in DOMAIN futures : futures[j] = "pending"}

process_conversation_start_unbounded ==
    /\ Queued # {}
    /\ LET j == Min(Queued) IN
         /\ futures' = [futures EXCEPT ![j] = "running"]
         /\ cpc' = [cpc EXCEPT ![j] = "delete_a"]
    /\ UNCHANGED <<ing_data, ing_workers, ipc, awaited, caller_error>>
    /\ UNCHANGED OutsidePool

\* add.py:178: a worker of the pool (at most max_workers threads, a first-in
\* first-out work queue) starts process_conversation (120-125).
process_conversation_start ==
    /\ Queued # {}
    /\ Cardinality(InPool) < ing_workers
    /\ LET j == Min(Queued) IN
         /\ futures' = [futures EXCEPT ![j] = "running"]
         /\ cpc' = [cpc EXCEPT ![j] = "delete_a"]
    /\ UNCHANGED <<ing_data, ing_workers, ipc, awaited, caller_error>>
    /\ UNCHANGED OutsidePool

\* add.py:128-129: delete_all for speaker A, then for speaker B; a failure
\* leaves process_conversation (there is no retry around it).
process_conversation_delete_all ==
    \E j \in InPool :
      /\ cpc[j] \in {"delete_a", "delete_b"}
      /\ \E ok \in BOOLEAN :
           IF ok
             THEN /\ cpc' = [cpc EXCEPT ![j] = IF cpc[j] = "delete_a"
                                                 THEN "delete_b" ELSE "segments"]
                  /\ UNCHANGED futures
             ELSE /\ cpc' = [cpc EXCEPT ![j] = "raised"]
                  /\ futures' = [futures EXCEPT ![j] = "failed"]
      /\ UNCHANGED <<ing_data, ing_workers, ipc, awaited, caller_error>>
      /\ UNCHANGED OutsidePool

\* add.py:131-166: the segments are walked; a turn of an unknown speaker
\* raises ValueError (149), otherwise both threads of every segment are
\* joined and the method returns.
process_conversation_segments ==
    \E j \in InPool :
      /\ cpc[j] = "segments"
      /\ IF ing_data[j] = "unknown_speaker"
           THEN /\ cpc' = [cpc EXCEPT ![j] = "raised"]
                /\ futures' = [futures EXCEPT ![j] = "failed"]
           ELSE /\ cpc' = [cpc EXCEPT ![j] = "returned"]
                /\ futures' = [futures EXCEPT ![j] = "done"]
      /\ UNCHANGED <<ing_data, ing_workers, ipc, awaited, caller_error>>
      /\ UNCHANGED OutsidePool

\* add.py:181-182: future.result() of the next future, in submission order;
\* it returns, or raises the exception of that conversation, which leaves
\* the with block.
process_all_conversations_result ==
    /\ ipc = "await"
    /\ IF awaited = Len(futures)
         THEN /\ ipc' = "shutdown"
              /\ UNCHANGED <<awaited, caller_error>>
         ELSE \/ /\ futures[awaited + 1] = "done"
                 /\ awaited' = awaited + 1
                 /\ UNCHANGED <<ipc, caller_error>>
              \/ /\ futures[awaited + 1] = "failed"
                 /\ caller_error' = <<awaited>>
                 /\ ipc' = "shutdown"
                 /\ UNCHANGED awaited
    /\ UNCHANGED <<ing_data, ing_workers, futures, cpc>>
    /\ UNCHANGED OutsidePool

ShutdownReturnsAtOnce == TRUE

\* add.py:178: leaving the with block calls shutdown(wait=True): the queued
\* conversations are still run and every worker is joined.
ShutdownWaited == \A j \in DOMAIN futures : futures[j] \in {"done", "failed"}

\* add.py:178-182: the with block is left; the method returns, or the
\* exception goes on to the caller.
process_all_conversations_exit ==
    /\ ipc = "shutdown"
    /\ ShutdownWaited
    /\ ipc' = IF caller_error = <<>> THEN "returned" ELSE "raised"
    /\ UNCHANGED <<ing_data, ing_workers, futures, cpc, awaited, caller_error>>
    /\ UNCHANGED OutsidePool

NextPool ==
    \/ process_all_conversations_no_data
    \/ process_all_conversations_submit
    \/ process_conversation_start
    \/ process_conversation_delete_all
    \/ process_conversation_segments
    \/ process_all_conversations_result
    \/ process_all_conversations_exit

InitPool ==
    /\ InitPoolInputs
    /\ RetryIdle
    /\ AnswerIdle
    /\ ConversationIdle
    /\ ZepAddIdle
    /\ QuestionIdle
    /\ StatisticsIdle
    /\ KeysIdle

SpecPool == InitPool /\ [][NextPool]_vars

(***************************************************************************)
(* Mem0 ingestion of one conversation: process_conversation,               *)
(* add_memories_for_speaker and the add_memory calls of the two threads of *)
(* every segment.  A turn's text is written <<s, k>> (segment, position),  *)
(* the string "<speaker>: <text>" as the pair <<speaker, text>> and the    *)
(* user id "<speaker>_<idx>" as the pair <<speaker, idx>>.                 *)
(***************************************************************************)

\* The speakers a turn may name; the conversation is between Ann and Bob.
Speakers == {"Ann", "Bob", "Eve"}

\* conversation[key + "_date_time"] of segment s when the key is there.
DateTime(s) == <<"date_time", s>>

\* The key is not in the dictionary.
NoKey == <<>>

Chats(s) ==
    UNION {{[k \in 1..n |-> [speaker |-> f[k], text |-> <<s, k>>]] :
              f \in [1..n -> Speakers]} : n \in 0..MaxTurns}

Segments(s) == {[date_time |-> d, chats |-> c] :
                  d \in {DateTime(s), NoKey}, c \in Chats(s)}

RECURSIVE SegmentLists(_)
\* The segment lists of at most n segments.
SegmentLists(n) ==
    IF n = 0 THEN {<<>>}
    ELSE LET shorter == SegmentLists(n - 1) IN
         shorter \cup {Append(sg, last) : sg \in {l \in shorter : Len(l) = n - 1},
                                          last \in Segments(n)}

\* The conversations of at most n segments between Ann and Bob.
Conversations(n) ==
    {[speaker_a |-> "Ann", speaker_b |-> "Bob", segments |-> sg] : sg \in SegmentLists(n)}

\* The two identities of a conversation: speaker A's and speaker B's.
Sides == {"a", "b"}

\* add.py:124-125.
speaker_a_user_id == <<item.speaker_a, conv_idx>>

speaker_b_user_id == <<item.speaker_b, conv_idx>>

UserId(side) == IF side = "a" THEN speaker_a_user_id ELSE speaker_b_user_id

\* A thread: where it stands, i of the batch loop, attempt of add_memory, the
\* arguments it was started with, and the batches add_memory was called with.
NoThread == [st |-> "unstarted", i |-> 0, attempt |-> 0,
             messages |-> <<>>, timestamp |-> NoKey, batches |-> <<>>]

\* add.py:112 (the call) and the state of the backend before it.
InitConversationInputs ==
    /\ item \in Conversations(MaxSegments)
    /\ conv_idx \in ConvIdx
    /\ batch_size \in 1..MaxBatch
    /\ run = 1
    /\ deletes = <<>>
    /\ ppc = "delete_a"
    /\ perror = <<>>
    /\ seg = 0
    /\ thr = [s \in 1..Len(item.segments) |-> [x \in Sides |-> NoThread]]
    /\ memories = [u \in {speaker_a_user_id, speaker_b_user_id} |-> <<>>]

delete_all_keeps(held) == held

\* add.py:128-129: what the backend holds under a user id after delete_all.
delete_all(held) == <<>>

DeleteAll(side, next) ==
    /\ \E ok \in BOOLEAN :
         /\ deletes' = Append(deletes, [user_id |-> UserId(side), ok |-> ok])
         /\ IF ok
              THEN /\ memories' = [memories EXCEPT ![UserId(side)] = delete_all(@)]
                   /\ ppc' = next
                   /\ UNCHANGED perror
              ELSE /\ ppc' = "raised"
                   /\ perror' = <<"delete_all">>
                   /\ UNCHANGED memories
    /\ UNCHANGED <<item, conv_idx, batch_size, run, seg, thr>>
    /\ UNCHANGED OutsideConversation

delete_all_speaker_a_failure_ignored ==
    /\ ppc = "delete_a"
    /\ \E ok \in BOOLEAN :
         /\ deletes' = Append(deletes, [user_id |-> UserId("a"), ok |-> ok])
         /\ memories' = IF ok THEN [memories EXCEPT ![UserId("a")] = delete_all(@)]
                              ELSE memories
    /\ ppc' = "delete_b"
    /\ UNCHANGED <<item, conv_idx, batch_size, run, perror, seg, thr>>
    /\ UNCHANGED OutsideConversation

\* add.py:128.
delete_all_speaker_a == ppc = "delete_a" /\ DeleteAll("a", "delete_b")

delete_all_speaker_b_skipped ==
    /\ ppc = "delete_b"
    /\ ppc' = "keys"
    /\ UNCHANGED <<item, conv_idx, batch_size, run, deletes, perror, seg, thr, memories>>
    /\ UNCHANGED OutsideConversation

\* add.py:129.
delete_all_speaker_b == ppc = "delete_b" /\ DeleteAll("b", "keys")

\* add.py:139-147, the list for speaker A's identity.
build_messages(chats, a, b) ==
    [k \in DOMAIN chats |->
       IF chats[k].speaker = a
         THEN [role |-> "user", content |-> <<a, chats[k].text>>]
         ELSE [role |-> "assistant", content |-> <<b, chats[k].text>>]]

build_messages_reverse_same_roles(chats, a, b) ==
    [k \in DOMAIN chats |->
       IF chats[k].speaker = a
         THEN [role |-> "user", content |-> <<a, chats[k].text>>]
         ELSE [role |-> "assistant", content |-> <<b, chats[k].text>>]]

\* add.py:140-147, the list for speaker B's identity.
build_messages_reverse(chats, a, b) ==
    [k \in DOMAIN chats |->
       IF chats[k].speaker = a
         THEN [role |-> "assistant", content |-> <<a, chats[k].text>>]
         ELSE [role |-> "user", content |-> <<b, chats[k].text>>]]

\* add.py:152-162 with 108: a started thread; range(0, 0, batch_size) is
\* empty, so the thread of an empty list ends without a call.
StartedThread(msgs, timestamp) ==
    [st |-> IF Len(msgs) = 0 THEN "done" ELSE "running", i |-> 0, attempt |-> 0,
     messages |-> msgs, timestamp |-> timestamp, batches |-> <<>>]

UnknownSpeakerTakenForB(chats, a, b) == FALSE

\* add.py:148-149.
UnknownSpeaker(chats, a, b) == \E k \in DOMAIN chats : chats[k].speaker \notin {a, b}

segment_timestamp_first(s) == item.segments[1].date_time

\* add.py:135-136: conversation[key + "_date_time"] for the key of segment s.
segment_timestamp(s) == item.segments[s].date_time

\* add.py:131-162: the next segment key: its timestamp is read, the two
\* lists are built and the two threads are started.
process_conversation_segment ==
    /\ ppc = "keys"
    /\ seg < Len(item.segments)
    /\ LET s == seg + 1
           timestamp == segment_timestamp(s)
           chats == item.segments[s].chats
       IN  /\ seg' = s
           /\ IF timestamp = NoKey
                THEN /\ ppc' = "raised"
                     /\ perror' = <<"KeyError">>
                     /\ UNCHANGED thr
                ELSE IF UnknownSpeaker(chats, item.speaker_a, item.speaker_b)
                       THEN /\ ppc' = "raised"
                            /\ perror' = <<"ValueError", "Unknown speaker">>
                            /\ UNCHANGED thr
                       ELSE /\ ppc' = "join"
                            /\ UNCHANGED perror
                            /\ thr' = [thr EXCEPT ![s] =
                                 [x \in Sides |->
                                    IF x = "a"
                                      THEN StartedThread(build_messages(chats, item.speaker_a, item.speaker_b), timestamp)
                                      ELSE StartedThread(build_messages_reverse(chats, item.speaker_a, item.speaker_b), timestamp)]]
    /\ UNCHANGED <<item, conv_idx, batch_size, run, deletes, memories>>
    /\ UNCHANGED OutsideConversation

batch_messages_one_more(msgs, i) ==
    SubSeq(msgs, i + 1, IF i + batch_size + 1 < Len(msgs) THEN i + batch_size + 1 ELSE Len(msgs))

\* add.py:109: messages[i : i + self.batch_size].
batch_messages(msgs, i) ==
    SubSeq(msgs, i + 1, IF i + batch_size < Len(msgs) THEN i + batch_size ELSE Len(msgs))

\* add.py:110, 89-91: the add call a thread has in flight.
AddCall(s, x) ==
    [user_id |-> UserId(x),
     message |-> batch_messages(thr[s][x].messages, thr[s][x].i),
     metadata |-> [timestamp |-> thr[s][x].timestamp]]

\* add.py:108-110, 87-91: a thread calls mem0_client.add for its next batch
\* (or again for the same batch after a failure); the first attempt is the
\* call of add_memory with that batch.
add_memory_call ==
    \E s \in DOMAIN thr, x \in Sides :
      /\ thr[s][x].st = "running"
      /\ thr' = [thr EXCEPT ![s][x].st = "calling",
                            ![s][x].batches =
                               IF thr[s][x].attempt = 0
                                 THEN Append(@, batch_messages(thr[s][x].messages, thr[s][x].i))
                                 ELSE @]
      /\ UNCHANGED <<item, conv_idx, batch_size, run, deletes, ppc, perror, seg, memories>>
      /\ UNCHANGED OutsideConversation

thread_after_failure_next_batch(t) ==
    IF add_memory_may_retry(t.attempt, AddRetries)
      THEN [t EXCEPT !.attempt = t.attempt + 1, !.st = "running"]
      ELSE [t EXCEPT !.i = t.i + batch_size,
                     !.attempt = 0,
                     !.st = IF t.i + batch_size < Len(t.messages) THEN "running" ELSE "done"]

thread_after_failure_again(t) ==
    IF add_memory_may_retry(t.attempt, AddRetries)
      THEN [t EXCEPT !.attempt = t.attempt + 1, !.st = "running"]
      ELSE [t EXCEPT !.st = "running"]

\* add.py:93-98: a failed attempt: sleep and try the batch again, or raise,
\* which ends add_memories_for_speaker and the thread.
thread_after_failure(t) ==
    IF add_memory_may_retry(t.attempt, AddRetries)
      THEN [t EXCEPT !.attempt = t.attempt + 1, !.st = "running"]
      ELSE [t EXCEPT !.st = "raised"]

\* add.py:92-98, 108: the call returns, and the thread goes on to the next
\* batch or ends; or it fails, and the thread sleeps and tries again or,
\* after the last attempt, dies of the exception.
add_memory_response ==
    \E s \in DOMAIN thr, x \in Sides :
      /\ thr[s][x].st = "calling"
      /\ LET t == thr[s][x]
             c == AddCall(s, x)
         IN \E ok \in BOOLEAN :
              IF ok
                THEN /\ memories' = [memories EXCEPT ![c.user_id] =
                                       Append(@, [message |-> c.message, metadata |-> c.metadata])]
                     /\ thr' = [thr EXCEPT ![s][x] =
                                  [t EXCEPT !.i = t.i + batch_size,
                                            !.attempt = 0,
                                            !.st = IF t.i + batch_size < Len(t.messages)
                                                     THEN "running" ELSE "done"]]
                ELSE /\ UNCHANGED memories
                     /\ thr' = [thr EXCEPT ![s][x] = thread_after_failure(t)]
      /\ UNCHANGED <<item, conv_idx, batch_size, run, deletes, ppc, perror, seg>>
      /\ UNCHANGED OutsideConversation

ThreadsLeftRunning(s) == TRUE

\* add.py:163-164: thread_a.join() and thread_b.join() have returned.
ThreadsJoined(s) == \A x \in Sides : thr[s][x].st \in {"done", "raised"}

\* add.py:163-164, then the next key of the loop.
process_conversation_join ==
    /\ ppc = "join"
    /\ ThreadsJoined(seg)
    /\ ppc' = "keys"
    /\ UNCHANGED <<item, conv_idx, batch_size, run, deletes, perror, seg, thr, memories>>
    /\ UNCHANGED OutsideConversation

\* add.py:131, 166: the keys are exhausted; "Messages added successfully" is
\* printed and the method returns.
process_conversation_return ==
    /\ ppc = "keys"
    /\ seg = Len(item.segments)
    /\ ppc' = "returned"
    /\ UNCHANGED <<item, conv_idx, batch_size, run, deletes, perror, seg, thr, memories>>
    /\ UNCHANGED OutsideConversation

\* add.py:112: process_conversation is called again for the same item and idx.
process_conversation_again ==
    /\ ppc = "returned"
    /\ run < MaxRuns
    /\ run' = run + 1
    /\ deletes' = <<>>
    /\ ppc' = "delete_a"
    /\ seg' = 0
    /\ thr' = [s \in DOMAIN thr |-> [x \in Sides |-> NoThread]]
    /\ UNCHANGED <<item, conv_idx, batch_size, perror, memories>>
    /\ UNCHANGED OutsideConversation

NextConversation ==
    \/ delete_all_speaker_a
    \/ delete_all_speaker_b
    \/ process_conversation_segment
    \/ add_memory_call
    \/ add_memory_response
    \/ process_conversation_join
    \/ process_conversation_return
    \/ process_conversation_again

InitConversation ==
    /\ InitConversationInputs
    /\ RetryIdle
    /\ AnswerIdle
    /\ PoolIdle
    /\ ZepAddIdle
    /\ QuestionIdle
    /\ StatisticsIdle
    /\ KeysIdle

SpecConversation == InitConversation /\ [][NextConversation]_vars

(***************************************************************************)
(* Zep ingestion: process_all_conversations and process_conversation of    *)
(* ZepAdd.  The coroutines run one await after the other.  The message     *)
(* content "<timestamp>: [<speaker>] <text>" is written as the triple.     *)
(***************************************************************************)

\* The turns of a segment of the Zep dataset: the speakers take turns.
ZepChats(s) ==
    {[k \in 1..n |-> [speaker |-> IF k % 2 = 1 THEN "Ann" ELSE "Bob", text |-> <<s, k>>]] :
       n \in 0..MaxTurns}

ZepSegments(s) == {[date_time |-> d, chats |-> c] :
                     d \in {DateTime(s), NoKey}, c \in ZepChats(s)}

RECURSIVE ZepSegmentLists(_)
ZepSegmentLists(n) ==
    IF n = 0 THEN {<<>>}
    ELSE LET shorter == ZepSegmentLists(n - 1) IN
         shorter \cup {Append(sg, last) : sg \in {l \in shorter : Len(l) = n - 1},
                                          last \in ZepSegments(n)}

ZepConversations(n) ==
    {[speaker_a |-> "Ann", speaker_b |-> "Bob", segments |-> sg] : sg \in ZepSegmentLists(n)}

\* The datasets tried: any first conversation, followed by conversations
\* with no segment or with one segment of one turn.
ZepDatasets(n) ==
    {<<>>} \cup {<<first>> \o rest : first \in ZepConversations(MaxSegments),
                                     rest \in SeqsUpTo({c \in ZepConversations(1) :
                                                          \A s \in DOMAIN c.segments :
                                                            /\ Len(c.segments[s].chats) = 1
                                                            /\ c.segments[s].date_time # NoKey},
                                                       n - 1)}

\* zep/add.py:119-129 (construction, load_data); <<>> is a dataset that
\* was not loaded (None) or an empty one.
InitZepAddInputs ==
    /\ zep_data \in ZepDatasets(MaxConvs)
    /\ zpc = "start"
    /\ zidx = 0
    /\ zseg = 0
    /\ zchat = 0
    /\ zcalls = <<>>
    /\ zerror = <<>>
    /\ zrun = 1

ZepCall(op, of, ok) == [op |-> op, of |-> of, ok |-> ok]

\* zep/add.py:167-168.
zep_process_all_conversations_no_data ==
    /\ zpc = "start"
    /\ zep_data = <<>>
    /\ zpc' = "raised"
    /\ zerror' = <<"ValueError", "No data loaded">>
    /\ UNCHANGED <<zrun, zep_data, zidx, zseg, zchat, zcalls>>
    /\ UNCHANGED OutsideZepAdd

\* zep/add.py:167, 169: the dataset is there and the loop is entered.
zep_process_all_conversations_enter ==
    /\ zpc = "start"
    /\ zep_data # <<>>
    /\ zpc' = "loop"
    /\ UNCHANGED <<zrun, zep_data, zidx, zseg, zchat, zcalls, zerror>>
    /\ UNCHANGED OutsideZepAdd

zep_ingests_every(idx_) == idx_ >= 0

\* zep/add.py:170: the conversations process_all_conversations ingests.
zep_ingests(idx_) == idx_ = 0

\* zep/add.py:169-171: the next item of enumerate(self.data), or the end of
\* the loop.
zep_process_all_conversations_loop ==
    /\ zpc = "loop"
    /\ IF zidx < Len(zep_data)
         THEN IF zep_ingests(zidx)
                THEN /\ zpc' = "user_get"
                     /\ zseg' = 0
                     /\ zchat' = 0
                     /\ UNCHANGED zidx
                ELSE /\ zidx' = zidx + 1
                     /\ UNCHANGED <<zpc, zseg, zchat>>
         ELSE /\ zpc' = "returned"
              /\ UNCHANGED <<zidx, zseg, zchat>>
    /\ UNCHANGED <<zrun, zep_data, zcalls, zerror>>
    /\ UNCHANGED OutsideZepAdd

\* A call to the Zep client for conversation zidx: it returns, or raises.
ZepClient(at, op, of, next_ok, next_fail, error) ==
    /\ zpc = at
    /\ \E ok \in BOOLEAN :
         /\ zcalls' = Append(zcalls, ZepCall(op, of, ok))
         /\ zpc' = IF ok THEN next_ok ELSE next_fail
         /\ zerror' = IF ~ok /\ next_fail = "raised" THEN error ELSE zerror
    /\ UNCHANGED <<zrun, zep_data, zidx, zseg, zchat>>
    /\ UNCHANGED OutsideZepAdd

zep_user_get_then_add ==
    ZepClient("user_get", "user.get", <<"user", zidx>>, "user_add", "user_add", <<>>)

\* zep/add.py:137-139.
zep_user_get ==
    ZepClient("user_get", "user.get", <<"user", zidx>>, "thread_get", "user_add", <<>>)

\* zep/add.py:140.
zep_user_add ==
    ZepClient("user_add", "user.add", <<"user", zidx>>, "thread_get", "raised", <<"user.add">>)

\* zep/add.py:143-145.
zep_thread_get ==
    ZepClient("thread_get", "thread.get", <<"thread", zidx>>, "keys", "thread_create", <<>>)

\* zep/add.py:146.
zep_thread_create ==
    ZepClient("thread_create", "thread.create", <<"thread", zidx>>, "keys", "raised",
              <<"thread.create">>)

\* zep/add.py:149-155: the next segment key and its timestamp; after the
\* last key process_conversation returns to the loop of 169.
zep_process_conversation_key ==
    /\ zpc = "keys"
    /\ LET segments == zep_data[zidx + 1].segments IN
         IF zseg < Len(segments)
           THEN /\ zseg' = zseg + 1
                /\ zchat' = 0
                /\ UNCHANGED zidx
                /\ IF segments[zseg + 1].date_time = NoKey
                     THEN /\ zpc' = "raised"
                          /\ zerror' = <<"KeyError">>
                     ELSE /\ zpc' = "chats"
                          /\ UNCHANGED zerror
           ELSE /\ zpc' = "loop"
                /\ zidx' = zidx + 1
                /\ UNCHANGED <<zseg, zchat, zerror>>
    /\ UNCHANGED <<zrun, zep_data, zcalls>>
    /\ UNCHANGED OutsideZepAdd

\* zep/add.py:155-164: the next turn of the segment is added to the thread as
\* one message, or the turns are exhausted.
zep_add_messages ==
    /\ zpc = "chats"
    /\ LET segment == zep_data[zidx + 1].segments[zseg] IN
         IF zchat < Len(segment.chats)
           THEN LET chat == segment.chats[zchat + 1]
                    message == [role |-> "user",
                                content |-> <<segment.date_time, chat.speaker, chat.text>>]
                IN \E ok \in BOOLEAN :
                     /\ zcalls' = Append(zcalls, [op |-> "thread.add_messages",
                                                  of |-> <<"thread", zidx>>,
                                                  ok |-> ok,
                                                  messages |-> <<message>>])
                     /\ IF ok
                          THEN /\ zchat' = zchat + 1
                               /\ UNCHANGED <<zpc, zerror>>
                          ELSE /\ zpc' = "raised"
                               /\ zerror' = <<"thread.add_messages">>
                               /\ UNCHANGED zchat
           ELSE /\ zpc' = "keys"
                /\ UNCHANGED <<zchat, zcalls, zerror>>
    /\ UNCHANGED <<zrun, zep_data, zidx, zseg>>
    /\ UNCHANGED OutsideZepAdd

\* zep/add.py:173-178: main is run again with the same --run_id on the same
\* dataset; the Zep backend keeps what the earlier run added.
zep_main_again ==
    /\ zpc = "returned"
    /\ zrun < MaxRuns
    /\ zrun' = zrun + 1
    /\ zpc' = "start"
    /\ zidx' = 0
    /\ zseg' = 0
    /\ zchat' = 0
    /\ UNCHANGED <<zep_data, zcalls, zerror>>
    /\ UNCHANGED OutsideZepAdd

NextZepAdd ==
    \/ zep_process_all_conversations_no_data
    \/ zep_process_all_conversations_enter
    \/ zep_process_all_conversations_loop
    \/ zep_user_get
    \/ zep_user_add
    \/ zep_thread_get
    \/ zep_thread_create
    \/ zep_process_conversation_key
    \/ zep_add_messages
    \/ zep_main_again

\* Either ingestion driver is run: MemoryADD's or ZepAdd's.
InitIngestion ==
    /\ \/ InitPoolInputs /\ ZepAddIdle
       \/ PoolIdle /\ InitZepAddInputs
    /\ RetryIdle
    /\ AnswerIdle
    /\ ConversationIdle
    /\ QuestionIdle
    /\ StatisticsIdle
    /\ KeysIdle

NextIngestion == NextPool \/ NextZepAdd

SpecIngestion == InitIngestion /\ [][NextIngestion]_vars

(***************************************************************************)
(* Answering, one question: process_question and answer_question of Mem0   *)
(* and of Zep with the values that flow through them.  search_memory is    *)
(* one step here (its retry loop is SpecRetry's).  A question's text is    *)
(* its number.  A string the code takes apart is a sequence of characters, *)
(* a string it only puts together is a sequence of its parts.              *)
(***************************************************************************)

\* What mem0_client.search can find: memory, metadata.timestamp and score
\* (in thousandths).
Hits == {[memory |-> "m1", metadata |-> [timestamp |-> "t1"], score |-> 914],
         [memory |-> "m2", metadata |-> [timestamp |-> "t2"], score |-> 286]}

\* search.py:97: round(score, 2), in hundredths (no score of Hits lies
\* halfway between two hundredths).
round2(score) == (score + 5) \div 10

\* search.py:93-100: the list search_memory returns for the backend's list.
semantic_memories(memory_list) ==
    [k \in DOMAIN memory_list |->
       [memory |-> memory_list[k].memory,
        timestamp |-> memory_list[k].metadata.timestamp,
        score |-> round2(memory_list[k].score)]]

\* The names a dataset can give a speaker, character by character.
SpeakerNames == {<<"A", "n", "n">>, <<"B", "o", "b">>, <<"J", "_", "R">>}

DecimalDigits == <<"0", "1", "2", "3", "4", "5", "6", "7", "8", "9">>

\* str(n) of a natural number, as an f-string renders {idx}.
RECURSIVE str(_)
str(n) ==
    IF n < 10
      THEN <<DecimalDigits[n + 1]>>
      ELSE str(n \div 10) \o <<DecimalDigits[(n % 10) + 1]>>

\* search.py:231-232: f"{speaker}_{idx}".
speaker_user_id(speaker, idx_) == speaker \o <<"_">> \o str(idx_)

\* zep/search.py:79: f"run_id_{run_id}_experiment_user_{idx}".
zep_user_id(run_id, idx_) == <<"run_id_", run_id, "_experiment_user_">> \o str(idx_)

\* The user ids process_question is called with (search.py:163), made by
\* process_data_file (search.py:231-232).
speaker_1_user_id == speaker_user_id(q_speakers[1], q_idx)

speaker_2_user_id == speaker_user_id(q_speakers[2], q_idx)

\* None, and what a JSON null is loaded as.
Null == "null"

\* What zep_client.graph.search can find: edges with fact, valid_at and
\* invalid_at, nodes with name and summary.
ZepEdges == {[fact |-> "f1", valid_at |-> v, invalid_at |-> i] :
               v \in {Null, "2023-05-08"}, i \in {Null, "2024-01-01"}}

ZepNodes == {[name |-> "n1", summary |-> "s1"], [name |-> "n2", summary |-> "s2"]}

\* search.py:163 and zep/search.py:101: the first call of process_question,
\* of MemorySearch or of ZepSearch.
InitQuestionInputs ==
    /\ q_entry \in {"mem0", "zep"}
    /\ IF q_entry = "mem0"
         THEN /\ q_speakers \in {p \in SpeakerNames \X SpeakerNames : p[1] # p[2]}
              /\ qpc = "search_1"
         ELSE /\ q_speakers = <<>>
              /\ qpc = "zep_search"
    /\ q_idx \in ConvIdx
    /\ q_num = 1
    /\ val \in {[question |-> 1, category |-> c] : c \in Categories}
    /\ speaker_1_memories = <<>>
    /\ speaker_2_memories = <<>>
    /\ context = <<>>
    /\ response = <<>>
    /\ result = <<>>
    /\ zep_result = <<>>
    /\ search_log = <<>>
    /\ completions = <<>>

\* search.py:45-115: search_memory(user_id, question) returns the formatted
\* list, or raises when its retries are exhausted.
SearchMemory(user_id, next) ==
    \/ \E memory_list \in SeqsUpTo(Hits, MaxMemories) :
         LET memories_ == semantic_memories(memory_list) IN
         /\ search_log' = Append(search_log, [question |-> val.question,
                                              user_id |-> user_id,
                                              memories |-> memories_])
         /\ qpc' = next
         /\ IF next = "search_2"
              THEN speaker_1_memories' = memories_ /\ UNCHANGED speaker_2_memories
              ELSE speaker_2_memories' = memories_ /\ UNCHANGED speaker_1_memories
    \/ /\ qpc' = "raised"
       /\ UNCHANGED <<search_log, speaker_1_memories, speaker_2_memories>>

\* search.py:125-127.
answer_question_speaker_1_memories ==
    /\ qpc = "search_1"
    /\ SearchMemory(speaker_1_user_id, "search_2")
    /\ UNCHANGED <<q_entry, q_speakers, q_idx, q_num, val, context, response,
                   result, zep_result, completions>>
    /\ UNCHANGED OutsideQuestion

\* search.py:128-130.
answer_question_speaker_2_memories ==
    /\ qpc = "search_2"
    /\ SearchMemory(speaker_2_user_id, "generate")
    /\ UNCHANGED <<q_entry, q_speakers, q_idx, q_num, val, context, response,
                   result, zep_result, completions>>
    /\ UNCHANGED OutsideQuestion

search_memory_text_with_score(memories_) ==
    [k \in DOMAIN memories_ |->
       <<memories_[k].timestamp, ": ", memories_[k].memory, ToString(memories_[k].score)>>]

\* search.py:132-133: [f"{item['timestamp']}: {item['memory']}" for item in
\* speaker_1_memories], a string being the sequence of its parts.
search_memory_text(memories_) ==
    [k \in DOMAIN memories_ |->
       <<memories_[k].timestamp, ": ", memories_[k].memory>>]

\* json.dumps(list, indent=4): a JSON array of the strings, in the list's
\* order; "[]" for the empty list.
json_dumps(list) == [open |-> "[", items |-> list, close |-> "]"]

\* search.py:137-138: user_id.split("_")[0], what stands before the first
\* underscore (all of it when there is none).
split_0(s) ==
    LET at == {k \in DOMAIN s : s[k] = "_"} IN
    IF at = {} THEN s ELSE SubSeq(s, 1, Min(at) - 1)

\* search.py:135-144: the values the prompt template is rendered with (the
\* semantic search; the template text itself is in prompts.py).
answer_prompt(id_1, id_2, memories_1, memories_2, question) ==
    [speaker_1_user_id |-> split_0(id_1),
     speaker_2_user_id |-> split_0(id_2),
     speaker_1_memories |-> json_dumps(search_memory_text(memories_1)),
     speaker_2_memories |-> json_dumps(search_memory_text(memories_2)),
     question |-> question]

answer_question_response_retried ==
    /\ qpc = "generate"
    /\ completions' = Append(completions,
                             answer_prompt(speaker_1_user_id, speaker_2_user_id,
                                           speaker_1_memories, speaker_2_memories,
                                           val.question))
    /\ \/ /\ response' = <<"response", val.question>>
          /\ qpc' = "result"
       \/ /\ Len(completions) < 2
          /\ qpc' = "generate"
          /\ UNCHANGED response
       \/ /\ qpc' = "raised"
          /\ UNCHANGED response
    /\ UNCHANGED <<q_entry, q_speakers, q_idx, q_num, val, speaker_1_memories,
                   speaker_2_memories, context, result, zep_result, search_log>>
    /\ UNCHANGED OutsideQuestion

\* search.py:132-151: the prompt is rendered and the completion service is
\* called once; it answers, or raises.
answer_question_response ==
    /\ qpc = "generate"
    /\ completions' = Append(completions,
                             answer_prompt(speaker_1_user_id, speaker_2_user_id,
                                           speaker_1_memories, speaker_2_memories,
                                           val.question))
    /\ \/ /\ response' = <<"response", val.question>>
          /\ qpc' = "result"
       \/ /\ qpc' = "raised"
          /\ UNCHANGED response
    /\ UNCHANGED <<q_entry, q_speakers, q_idx, q_num, val, speaker_1_memories,
                   speaker_2_memories, context, result, zep_result, search_log>>
    /\ UNCHANGED OutsideQuestion

result_record_counts_of_speaker_1(v, resp, memories_1, memories_2) ==
    [question |-> v.question,
     category |-> v.category,
     response |-> resp,
     speaker_1_memories |-> memories_1,
     speaker_2_memories |-> memories_2,
     num_speaker_1_memories |-> Len(memories_1),
     num_speaker_2_memories |-> Len(memories_1)]

\* search.py:188-204: the result dictionary (the fields the claims read).
result_record(v, resp, memories_1, memories_2) ==
    [question |-> v.question,
     category |-> v.category,
     response |-> resp,
     speaker_1_memories |-> memories_1,
     speaker_2_memories |-> memories_2,
     num_speaker_1_memories |-> Len(memories_1),
     num_speaker_2_memories |-> Len(memories_2)]

\* search.py:152-161, 177-204: answer_question returns its tuple and
\* process_question builds the result from it.
process_question_result ==
    /\ qpc = "result"
    /\ result' = result_record(val, response, speaker_1_memories, speaker_2_memories)
    /\ qpc' = "save"
    /\ UNCHANGED <<q_entry, q_speakers, q_idx, q_num, val, speaker_1_memories,
                   speaker_2_memories, context, response, zep_result,
                   search_log, completions>>
    /\ UNCHANGED OutsideQuestion

\* search.py:207-210: self.results is written to the output file (SpecAnswer
\* has the file) and the result is returned.
process_question_save ==
    /\ qpc = "save"
    /\ qpc' = "returned"
    /\ UNCHANGED <<q_entry, q_speakers, q_idx, q_num, val, speaker_1_memories,
                   speaker_2_memories, context, response, result, zep_result,
                   search_log, completions>>
    /\ UNCHANGED OutsideQuestion

\* An object is true unless it is None or empty (if edge.valid_at).
Truthy(v) == v \notin {Null, ""}

format_edge_date_range_raw(edge) == <<edge.valid_at, " - ", edge.invalid_at>>

\* zep/search.py:46-54: f"{valid_at or 'date unknown'} - {invalid_at or
\* 'present'}", the parts of the string in order.
format_edge_date_range(edge) ==
    <<IF Truthy(edge.valid_at) THEN edge.valid_at ELSE "date unknown",
      " - ",
      IF Truthy(edge.invalid_at) THEN edge.invalid_at ELSE "present">>

\* "\n".join(lines), as the lines of the text: the empty list gives the
\* empty string, which is one empty line.
join_lines(lines) == IF lines = <<>> THEN << <<>> >> ELSE lines

\* zep/search.py:17-31: TEMPLATE, a line being the sequence of its parts.
\* What follows a placeholder on its line stays on the line.
TEMPLATE ==
    [head |-> << <<"  # Template string for formatting Zep's graph search results into readable context">>,
               <<"FACTS and ENTITIES represent relevant context to the current conversation.  # Explanation of what the formatted data represents">>,
               <<>>,
               <<"# These are the most relevant facts and their valid date ranges  # Section header for fact listings">>,
               <<"# format: FACT (Date range: from - to)  # Format specification showing temporal validity">>,
               <<>> >>,
     after_facts |-> "  # Placeholder that will be replaced with actual facts from graph edges",
     middle |-> << <<>>,
                 <<>>,
                 <<"# These are the most relevant entities  # Section header for entity listings">>,
                 <<"# ENTITY_NAME: entity summary  # Format specification for entity name and description">>,
                 <<>> >>,
     after_entities |-> "  # Placeholder that will be replaced with actual entities from graph nodes",
     tail |-> << <<>>,
               <<>> >>]

\* A text put where a placeholder stands: its last line goes on with the
\* rest of the placeholder's line.
Placed(text, rest) ==
    [k \in DOMAIN text |-> IF k = Len(text) THEN text[k] \o <<rest>> ELSE text[k]]

\* TEMPLATE.format(facts=..., entities=...).
TEMPLATE_format(facts, entities) ==
    TEMPLATE.head \o Placed(facts, TEMPLATE.after_facts)
      \o TEMPLATE.middle \o Placed(entities, TEMPLATE.after_entities)
      \o TEMPLATE.tail

compose_search_context_without_headers(edges, nodes) ==
    IF edges = <<>> /\ nodes = <<>>
      THEN <<>>
      ELSE TEMPLATE_format(
             join_lines([k \in DOMAIN edges |->
                <<"  - ", edges[k].fact, " (">> \o format_edge_date_range(edges[k]) \o <<")">>]),
             join_lines([k \in DOMAIN nodes |->
                <<"  - ", nodes[k].name, ": ", nodes[k].summary>>]))

\* zep/search.py:56-65: the facts and the entities rendered into TEMPLATE.
compose_search_context(edges, nodes) ==
    LET facts == [k \in DOMAIN edges |->
                    <<"  - ", edges[k].fact, " (">>
                      \o format_edge_date_range(edges[k]) \o <<")">>]
        entities == [k \in DOMAIN nodes |->
                       <<"  - ", nodes[k].name, ": ", nodes[k].summary>>]
    IN  TEMPLATE_format(join_lines(facts), join_lines(entities))

\* zep/search.py:67-99: search_memory searches the edges and the nodes of
\* the user's graph and composes the context, or raises when its retries are
\* exhausted.
zep_search_memory_context ==
    /\ qpc = "zep_search"
    /\ \/ \E edges \in SeqsUpTo(ZepEdges, MaxMemories) :
          \E nodes \in SeqsUpTo(ZepNodes, MaxMemories) :
            /\ context' = compose_search_context(edges, nodes)
            /\ search_log' = Append(search_log,
                                    [question |-> val.question,
                                     user_id |-> zep_user_id("r", q_idx),
                                     memories |-> [edges |-> edges, nodes |-> nodes]])
            /\ qpc' = "zep_generate"
       \/ /\ qpc' = "raised"
          /\ UNCHANGED <<context, search_log>>
    /\ UNCHANGED <<q_entry, q_speakers, q_idx, q_num, val, speaker_1_memories,
                   speaker_2_memories, response, result, zep_result, completions>>
    /\ UNCHANGED OutsideQuestion

\* zep/search.py:139-140: the values the Zep prompt is rendered with.
zep_answer_prompt(memories_, question) == [memories |-> memories_, question |-> question]

\* zep/search.py:139-148: the prompt is rendered and the completion service
\* is called once; it answers, or raises.
zep_answer_question_response ==
    /\ qpc = "zep_generate"
    /\ completions' = Append(completions, zep_answer_prompt(context, val.question))
    /\ \/ /\ response' = <<"response", val.question>>
          /\ qpc' = "zep_result"
       \/ /\ qpc' = "raised"
          /\ UNCHANGED response
    /\ UNCHANGED <<q_entry, q_speakers, q_idx, q_num, val, speaker_1_memories,
                   speaker_2_memories, context, result, zep_result, search_log>>
    /\ UNCHANGED OutsideQuestion

\* zep/search.py:116-126: the result dictionary (the fields the claims read).
zep_result_record(v, resp, ctx) ==
    [question |-> v.question,
     category |-> v.category,
     response |-> resp,
     context |-> ctx]

\* zep/search.py:114-128: process_question builds the result and returns it.
zep_process_question_result ==
    /\ qpc = "zep_result"
    /\ zep_result' = zep_result_record(val, response, context)
    /\ qpc' = "returned"
    /\ UNCHANGED <<q_entry, q_speakers, q_idx, q_num, val, speaker_1_memories,
                   speaker_2_memories, context, response, result,
                   search_log, completions>>
    /\ UNCHANGED OutsideQuestion

\* search.py:163, zep/search.py:101: process_question is called for the next
\* question of the conversation; the locals of the call before are gone, and
\* the calls are counted anew.
process_question_next ==
    /\ qpc = "returned"
    /\ q_num < MaxQuestions
    /\ q_num' = q_num + 1
    /\ val' \in {[question |-> q_num + 1, category |-> c] : c \in Categories}
    /\ qpc' = IF q_entry = "mem0" THEN "search_1" ELSE "zep_search"
    /\ speaker_1_memories' = <<>>
    /\ speaker_2_memories' = <<>>
    /\ context' = <<>>
    /\ response' = <<>>
    /\ result' = <<>>
    /\ zep_result' = <<>>
    /\ search_log' = <<>>
    /\ completions' = <<>>
    /\ UNCHANGED <<q_entry, q_speakers, q_idx>>
    /\ UNCHANGED OutsideQuestion

NextQuestion ==
    \/ answer_question_speaker_1_memories
    \/ answer_question_speaker_2_memories
    \/ answer_question_response
    \/ process_question_result
    \/ process_question_save
    \/ zep_search_memory_context
    \/ zep_answer_question_response
    \/ zep_process_question_result
    \/ process_question_next

InitQuestion ==
    /\ InitQuestionInputs
    /\ RetryIdle
    /\ AnswerIdle
    /\ PoolIdle
    /\ ConversationIdle
    /\ ZepAddIdle
    /\ StatisticsIdle
    /\ KeysIdle

SpecQuestion == InitQuestion /\ [][NextQuestion]_vars

(***************************************************************************)
(* The two worker pools side by side: a run is one of ingestion by          *)
(* MemoryADD.process_all_conversations or one of answering by an entry      *)
(* point of the answering pipeline.                                         *)
(***************************************************************************)

\* search.py:252: max_workers=1, the default of process_questions_parallel.
DefaultQuestionWorkers == 1

InitWorkerPools ==
    /\ \/ InitPoolInputs /\ AnswerIdle
       \/ PoolIdle /\ InitAnswerInputs
    /\ RetryIdle
    /\ ConversationIdle
    /\ ZepAddIdle
    /\ QuestionIdle
    /\ StatisticsIdle
    /\ KeysIdle

NextWorkerPools == NextPool \/ NextAnswer

SpecWorkerPools == InitWorkerPools /\ [][NextWorkerPools]_vars

(***************************************************************************)
(* Claims about the retry wrappers (checked under SpecRetry).              *)
(***************************************************************************)

Range(f) == {f[x] : x \in DOMAIN f}

Failed(log) == {i \in DOMAIN log : ~log[i].ok}

Attempts(log) == {i \in DOMAIN log : log[i].op # "nodes"}

RetryTerminal == rpc \in {"returned", "raised"}

\* The wrapper has returned after a backend call succeeded.
ReturnedAfterSuccess ==
    /\ rpc = "returned"
    /\ max_retries >= 1
    /\ calls # <<>>
    /\ calls[Len(calls)].ok

\* C1 as stated: with a budget n >= 1, after k < n failures and a success the
\* wrapper (add_memory, Mem0 and Zep search_memory) has returned the result of
\* the successful call (nothing, for add_memory, which returns no value),
\* after exactly k+1 backend calls and exactly k sleeps.
C1_AsStated ==
    ReturnedAfterSuccess =>
        LET k == Cardinality(Failed(calls)) IN
        /\ k < max_retries
        /\ outcome.kind \in {"value", "none"}
        /\ outcome.kind = "value" => Len(calls) \in Range(outcome.of)
        /\ Len(calls) = k + 1
        /\ sleeps = k

\* C1 (amended): with a budget n >= 1 a wrapper returns normally only after an
\* attempt succeeded; if k attempts failed before it, then k < n, exactly k+1
\* attempts were made and exactly k sleeps.  Mem0 search_memory returns the
\* response of the successful call and add_memory returns None, both after
\* exactly k+1 backend calls; Zep search_memory returns the context of the
\* edges and nodes responses of the successful attempt, after between k+2 and
\* 2k+2 backend calls (an attempt is the edges search and, if that succeeds,
\* the nodes search).
C1_RetryThenSuccess ==
    (rpc = "returned" /\ max_retries >= 1) =>
        LET k == Cardinality(Failed(calls))
            n == Len(calls) IN
        /\ ReturnedAfterSuccess
        /\ k < max_retries
        /\ Cardinality(Attempts(calls)) = k + 1
        /\ sleeps = k
        /\ \A i \in 1..(n - 1) : calls[i].ok => calls[i].op = "edges"
        /\ wrapper = "add_memory" =>
             n = k + 1 /\ outcome = [kind |-> "none", of |-> <<>>]
        /\ wrapper = "search_memory" =>
             n = k + 1 /\ outcome = [kind |-> "value", of |-> <<n>>]
        /\ wrapper = "zep_search_memory" =>
             /\ k + 2 <= n /\ n <= 2 * k + 2
             /\ calls[n - 1] = BackendCall("edges", TRUE)
             /\ calls[n] = BackendCall("nodes", TRUE)
             /\ outcome = [kind |-> "value", of |-> <<n - 1, n>>]

\* Witness of C1: Zep search_memory returned after two failed attempts, one of
\* which failed in its nodes search.
C1_Witness ==
    /\ rpc = "returned"
    /\ wrapper = "zep_search_memory"
    /\ sleeps = 2
    /\ Len(calls) = 5

\* C2: when every backend call fails, add_memory and Mem0 search_memory
\* (budget n >= 1) never return normally: they end by raising the error of the
\* last call, after exactly n calls and exactly n-1 sleeps.
C2_RetryExhausted ==
    ( /\ wrapper \in {"add_memory", "search_memory"}
      /\ max_retries >= 1
      /\ RetryTerminal
      /\ Failed(calls) = DOMAIN calls ) =>
        /\ rpc = "raised"
        /\ Len(calls) = max_retries
        /\ sleeps = max_retries - 1
        /\ outcome = [kind |-> "error", of |-> <<Len(calls)>>]

\* Witness of C2: Mem0 search_memory gave up after its three default attempts.
C2_Witness ==
    /\ wrapper = "search_memory"
    /\ max_retries = 3
    /\ rpc = "raised"
    /\ Len(calls) = 3
    /\ sleeps = 2

(***************************************************************************)
(* Claims about the answering pipeline (checked under SpecAnswer).         *)
(***************************************************************************)

\* The output file is a complete document with one key per conversation that
\* has records, the index as a string, holding exactly the list of the store.
FileIsStore ==
    /\ file.st = "doc"
    /\ \A i \in ConvIdx : results[i] # <<>> => <<ToString(i), results[i]>> \in file.doc
    /\ Cardinality(file.doc) = Cardinality({i \in ConvIdx : results[i] # <<>>})

\* The questions of the dataset that pass the category filter.  The Zep
\* entry point has no filter; process_questions_parallel is given self.category
\* like process_data_file.
Questions == {q \in (0..(Len(data) - 1)) \X (1..MaxQuestions) : q[2] <= Len(qa(q[1]))}

Passing == {q \in Questions : ~Skips(qa(q[1])[q[2]])}

Copies(q, res) == {p \in ConvIdx \X (1..(MaxConvs * MaxQuestions)) :
                     p[2] <= Len(res[p[1]]) /\ res[p[1]][p[2]].question = q}

Returned == tpc[0] = "returned"

Ended == tpc[0] \in {"returned", "raised"}

\* C3: in process_data_file (Mem0 and Zep), when the memory search of a
\* question begins, the output file holds the whole store, that is every
\* record appended so far including the newest one.
C3_FlushedBeforeNextQuestion ==
    ( /\ entry \in {"mem0_process_data_file", "zep_process_data_file"}
      /\ tpc[0] \in {"search_a", "zep_search"}
      /\ StoreRecords(results) # {} ) =>
        /\ FileIsStore
        /\ FileRecords(file) = StoreRecords(results)

\* Witness of C3: the second question of conversation 0 starts its search with
\* the record of the first one in the store.
C3_Witness ==
    /\ entry = "mem0_process_data_file"
    /\ tpc[0] = "search_a"
    /\ tq[0] = <<0, 2>>
    /\ Len(results[0]) = 1
    /\ alive

\* C4: a record that is in the output file stays in the output file, at every
\* later moment of the run (the process may be stopped at any of them).
C4_NeverLost == [][FileRecords(file) \subseteq FileRecords(file')]_vars

\* C5: after a run without terminal failure the store and the output file
\* hold exactly one record for each question that passed the filter, for
\* process_data_file and for process_questions_parallel.
C5_ExactlyOneRecord ==
    (Returned /\ failed = {}) =>
        \A q \in Passing :
            /\ Cardinality(Copies(q, results)) = 1
            /\ Record(q) \in FileRecords(file)

\* C6: in process_questions_parallel at most one thread is between the
\* opening (truncation) of the output file and the end of its write.
InWrite == {t \in Threads : tpc[t] \in {"pq_dump", "psq_dump", "flush_dump", "final_dump"}}

C6_FlushMutex ==
    entry = "process_questions_parallel" => Cardinality(InWrite) <= 1

\* C7: when process_data_file or process_questions_parallel has returned
\* normally, the output file is the serialization of the whole store, every
\* unit of work is over and no thread is left that could write the file.
C7_FinalFlush ==
    Returned =>
        /\ FileIsStore
        /\ FileRecords(file) = StoreRecords(results)
        /\ \A w \in Workers : tpc[w] = "idle"
        /\ \A j \in DOMAIN fut : fut[j] = "done"

\* Witness of C7: Mem0 process_data_file returned with records under two
\* conversation indices.
C7_Witness ==
    /\ Returned
    /\ entry = "mem0_process_data_file"
    /\ results[0] # <<>>
    /\ results[1] # <<>>

\* C8: with an active category filter a question of another category has no
\* record, no memory search, no completion call and no write of the output
\* file, for process_data_file and for process_questions_parallel.
C8_FilterSkips ==
    \A q \in Questions \ Passing :
        /\ Copies(q, results) = {}
        /\ \A sp \in {"a", "b", "user"} : <<q, sp>> \notin searched
        /\ q \notin answered
        /\ q \notin wrote

\* C9: when the run has ended, every question that passed the filter and did
\* not itself fail has been processed and its record is in the output file,
\* whatever other questions failed.
C9_FailureIsolated ==
    Ended =>
        \A q \in Passing \ failed :
            /\ q \in answered
            /\ Record(q) \in FileRecords(file)

(***************************************************************************)
(* Claims about the ingestion pool (checked under SpecPool).               *)
(***************************************************************************)

FailedConversations == {j \in DOMAIN futures : futures[j] = "failed"}

\* C10: process_all_conversations submits every conversation; when the
\* failure of a conversation has reached the caller, every conversation of
\* the dataset has been submitted and has run to its end (none cancelled,
\* none skipped), and the failure is that of the first failing conversation
\* in submission order.
C10_FailureAfterAll ==
    /\ ipc \in {"await", "shutdown", "returned"} => Len(futures) = Len(ing_data)
    /\ (ipc = "raised" /\ ing_data # <<>>) =>
         /\ Len(futures) = Len(ing_data)
         /\ \A j \in DOMAIN futures :
              /\ futures[j] \in {"done", "failed"}
              /\ cpc[j] \in {"returned", "raised"}
         /\ FailedConversations # {}
         /\ caller_error = <<Min(FailedConversations) - 1>>

\* Witness of C10: with one worker, conversation 0 failed while conversation 1
\* was still queued; conversation 1 ran to its end before the caller saw the
\* failure.
C10_Witness ==
    /\ ipc = "raised"
    /\ ing_workers = 1
    /\ futures = <<"failed", "done">>
    /\ caller_error = <<0>>

(***************************************************************************)
(* Claims about the ingestion of one conversation (checked under           *)
(* SpecConversation).                                                      *)
(***************************************************************************)

\* The segment and the position of the turn a message was built from.
SegmentOf(m) == m.content[2][1]

PositionOf(m) == m.content[2][2]

RECURSIVE FlatMessages(_)
\* The messages of a list of added batches, in the order they were added.
FlatMessages(batches) ==
    IF batches = <<>> THEN <<>>
    ELSE Head(batches).message \o FlatMessages(Tail(batches))

Held(x) == FlatMessages(memories[UserId(x)])

Terminated(s, x) == thr[s][x].st \in {"done", "raised"}

Calling(s, x) == thr[s][x].st = "calling"

\* C11: once a batch of an identity has exhausted its retries, no add call
\* is issued under that identity for a later segment of the conversation.
C11_IdentityAborted ==
    \A x \in Sides : \A s1, s2 \in DOMAIN thr :
      (s1 < s2 /\ thr[s1][x].st = "raised") => ~Calling(s2, x)

\* C12: when a batch has exhausted its retries, process_conversation does
\* not return normally.
C12_FailureObserved ==
    ppc = "returned" => \A s \in DOMAIN thr : \A x \in Sides : thr[s][x].st # "raised"

SelfRole(sp, x) ==
    IF (x = "a" /\ sp = item.speaker_a) \/ (x = "b" /\ sp = item.speaker_b)
      THEN "user" ELSE "assistant"

\* C13: the two lists of a segment have the segment's length, hold
\* "<speaker>: <text>" of its turns in order, and give a turn the role user
\* under its speaker's identity and assistant under the other identity; so do
\* the messages added under the two identities.
C13_Perspectives ==
    /\ \A s \in DOMAIN thr : \A x \in Sides :
         thr[s][x].st # "unstarted" =>
           LET chats == item.segments[s].chats
               list == thr[s][x].messages
           IN  /\ Len(list) = Len(chats)
               /\ \A k \in DOMAIN chats :
                    /\ list[k].content = <<chats[k].speaker, chats[k].text>>
                    /\ chats[k].speaker \in {item.speaker_a, item.speaker_b}
                    /\ list[k].role = SelfRole(chats[k].speaker, x)
    /\ \A x \in Sides : \A j \in DOMAIN Held(x) :
         LET m == Held(x)[j]
             chat == item.segments[SegmentOf(m)].chats[PositionOf(m)]
         IN  /\ m.content = <<chat.speaker, chat.text>>
             /\ m.role = SelfRole(chat.speaker, x)

\* C13 happens: a segment in which both speakers talk has been added under
\* both identities.
C13_Witness ==
    \E s \in DOMAIN thr :
      /\ \A x \in Sides : thr[s][x].st = "done"
      /\ {item.segments[s].chats[k].speaker : k \in DOMAIN item.segments[s].chats}
           = {item.speaker_a, item.speaker_b}
      /\ \A x \in Sides : \E j \in DOMAIN Held(x) : SegmentOf(Held(x)[j]) = s

RightTimestamp(message, metadata) ==
    /\ metadata.timestamp # NoKey
    /\ \A k \in DOMAIN message :
         metadata.timestamp = item.segments[SegmentOf(message[k])].date_time

\* C14: every add call, in flight or answered, carries the date_time of the
\* segment its messages come from.
C14_Timestamps ==
    /\ \A s \in DOMAIN thr : \A x \in Sides :
         Calling(s, x) => RightTimestamp(AddCall(s, x).message, AddCall(s, x).metadata)
    /\ \A x \in Sides : \A j \in DOMAIN memories[UserId(x)] :
         RightTimestamp(memories[UserId(x)][j].message, memories[UserId(x)][j].metadata)

\* C14 happens: a call of the second segment is in flight after the first
\* segment was added.
C14_Witness ==
    \E x \in Sides :
      /\ 2 \in DOMAIN thr
      /\ Calling(2, x)
      /\ \E j \in DOMAIN Held(x) : SegmentOf(Held(x)[j]) = 1

Stranger(s) ==
    \E k \in DOMAIN item.segments[s].chats :
      item.segments[s].chats[k].speaker \notin {item.speaker_a, item.speaker_b}

\* C15: a segment with a turn of an unknown speaker makes process_conversation
\* raise when it is reached: no thread is started and no add call is issued
\* for that segment or a later one, and the method never returns normally.
C15_UnknownSpeaker ==
    \A s \in DOMAIN thr :
      Stranger(s) =>
        /\ \A s2 \in DOMAIN thr : \A x \in Sides :
             s2 >= s => thr[s2][x].st = "unstarted"
        /\ \A x \in Sides : \A j \in DOMAIN Held(x) : SegmentOf(Held(x)[j]) < s
        /\ ppc # "returned"
        /\ seg >= s => ppc = "raised"

\* C15 happens: the second segment has the unknown speaker, and the first
\* segment was added before the error.
C15_Witness ==
    /\ perror = <<"ValueError", "Unknown speaker">>
    /\ seg = 2
    /\ Stranger(2)
    /\ \E x \in Sides : Held(x) # <<>>

RECURSIVE TurnsFrom(_)
\* "<speaker>: <text>" of every turn of the conversation from segment s on.
TurnsFrom(s) ==
    IF s > Len(item.segments) THEN <<>>
    ELSE [k \in DOMAIN item.segments[s].chats |->
            <<item.segments[s].chats[k].speaker, item.segments[s].chats[k].text>>]
         \o TurnsFrom(s + 1)

RunSucceeded ==
    /\ ppc = "returned"
    /\ \A s \in DOMAIN thr : \A x \in Sides : thr[s][x].st = "done"

\* C16: after a second successful run for the same item and idx the backend
\* holds, under each identity, every turn of the conversation exactly once.
C16_Idempotent ==
    (run = 2 /\ RunSucceeded) =>
       \A x \in Sides :
         [k \in DOMAIN Held(x) |-> Held(x)[k].content] = TurnsFrom(1)

\* C16 happens: the second run is over and the conversation has turns.
C16_Witness ==
    /\ run = 2
    /\ RunSucceeded
    /\ Len(TurnsFrom(1)) >= 2

Before(m1, m2) ==
    \/ SegmentOf(m1) < SegmentOf(m2)
    \/ SegmentOf(m1) = SegmentOf(m2) /\ PositionOf(m1) < PositionOf(m2)

OfSegment(list, s) == SelectSeq(list, LAMBDA m : SegmentOf(m) = s)

\* C17: under one identity the batches are added in input order; while a
\* call for a batch is in flight, the earlier batches of its segment have
\* all been added, the threads of the earlier segments have ended and
\* nothing of a later segment has been added.
C17_InputOrder ==
    /\ \A x \in Sides : \A j, k \in DOMAIN Held(x) :
         j < k => Before(Held(x)[j], Held(x)[k])
    /\ \A s \in DOMAIN thr : \A x \in Sides :
         Calling(s, x) =>
           /\ OfSegment(Held(x), s) = SubSeq(thr[s][x].messages, 1, thr[s][x].i)
           /\ \A s1 \in DOMAIN thr : s1 < s => Terminated(s1, x)
           /\ \A j \in DOMAIN Held(x) : SegmentOf(Held(x)[j]) <= s

\* C17 happens: the call for the second batch of the second segment is in
\* flight.
C17_Witness ==
    \E x \in Sides :
      /\ 2 \in DOMAIN thr
      /\ Calling(2, x)
      /\ thr[2][x].i > 0
      /\ OfSegment(Held(x), 1) # <<>>

InFlight == {c \in (DOMAIN thr) \X Sides : Calling(c[1], c[2])}

\* C18: at most two add calls are in flight, at most one per identity, and
\* while a call of a segment is in flight both threads of every earlier
\* segment have ended.
C18_TwoInFlight ==
    /\ Cardinality(InFlight) <= 2
    /\ \A c, d \in InFlight : c[2] = d[2] => c = d
    /\ \A c \in InFlight : \A s \in DOMAIN thr : \A x \in Sides :
         s < c[1] => Terminated(s, x)

\* C18 happens: both identities have a call of the second segment in flight.
C18_Witness ==
    /\ 2 \in DOMAIN thr
    /\ \A x \in Sides : Calling(2, x)

(***************************************************************************)
(* Claims about the ingestion drivers (checked under SpecIngestion).       *)
(***************************************************************************)

\* C19: process_all_conversations of MemoryADD and of ZepAdd, called with no
\* dataset or an empty one, raises ValueError with nothing submitted to the
\* pool and no call made to the backend.
C19_NoData ==
    /\ (ing_data = <<>> /\ ipc \notin {"idle", "start"}) =>
          /\ ipc = "raised"
          /\ caller_error = <<"ValueError", "No data loaded">>
          /\ futures = <<>>
    /\ (zep_data = <<>> /\ zpc \notin {"idle", "start"}) =>
          /\ zpc = "raised"
          /\ zerror = <<"ValueError", "No data loaded">>
          /\ zcalls = <<>>

\* C19 happens: ZepAdd was run without a dataset and has raised.
C19_Witness ==
    /\ zep_data = <<>>
    /\ zpc = "raised"
    /\ zerror = <<"ValueError", "No data loaded">>

(***************************************************************************)
(* Claims about one question (checked under SpecQuestion).                 *)
(***************************************************************************)

\* The memories the searches of question q returned for a user id.
SearchesOf(q, user_id) ==
    SelectSeq(search_log, LAMBDA e : e.question = q /\ e.user_id = user_id)

\* C20: in every result record the two counts are the lengths of the two
\* memory lists, and the lists are what the two searches of the record's
\* question returned, the first for speaker 1 and the second for speaker 2.
C20_MemoryCounts ==
    result # <<>> =>
      /\ result.num_speaker_1_memories = Len(result.speaker_1_memories)
      /\ result.num_speaker_2_memories = Len(result.speaker_2_memories)
      /\ Len(SearchesOf(result.question, speaker_1_user_id)) = 1
      /\ Len(SearchesOf(result.question, speaker_2_user_id)) = 1
      /\ result.speaker_1_memories = SearchesOf(result.question, speaker_1_user_id)[1].memories
      /\ result.speaker_2_memories = SearchesOf(result.question, speaker_2_user_id)[1].memories

\* C20 happens: the record of the second question is built from two lists of
\* different lengths.
C20_Witness ==
    /\ result # <<>>
    /\ result.question = 2
    /\ qpc = "returned"
    /\ result.num_speaker_1_memories = 2
    /\ result.num_speaker_2_memories = 1

(***************************************************************************)
(* Claims about the result store (checked under SpecAnswer).               *)
(***************************************************************************)

\* The identities the searches of question q were issued against.
IdentitiesOf(q) == {p[2] : p \in {x \in identities : x[1] = q}}

\* The identities of conversation idx: its two speakers in Mem0, its one
\* user in Zep.
IdentitiesOfConversation(idx) ==
    IF entry = "zep_process_data_file"
      THEN {<<"user", idx>>}
      ELSE {<<"a", idx>>, <<"b", idx>>}

\* C21: every record stored under conversation index idx is the record of a
\* question of the qa list of conversation idx, and the searches of that
\* question were issued against the identities of conversation idx and no
\* other; no record is stored under another conversation's index.
C21_Attribution ==
    \A idx \in ConvIdx : \A k \in DOMAIN results[idx] :
      LET q == results[idx][k].question IN
        /\ q[1] = idx
        /\ idx < Len(data)
        /\ q[2] \in DOMAIN qa(idx)
        /\ results[idx][k] = Record(q)
        /\ IdentitiesOf(q) = IdentitiesOfConversation(idx)

\* C21 happens: both conversations of a dataset have a record in the store.
C21_Witness ==
    /\ Len(data) = 2
    /\ results[0] # <<>>
    /\ results[1] # <<>>

\* C22: the list stored under a conversation index changes only by gaining
\* one record at its end, the record of the question being processed; what
\* it held stays, in the same order.
C22_AppendOnly ==
    [][\A idx \in ConvIdx :
         \/ results'[idx] = results[idx]
         \/ /\ tpc[0] = "append"
            /\ idx = tq[0][1]
            /\ results'[idx] = Append(results[idx], Record(tq[0]))]_vars

\* C22 happens: a list of the store has grown twice.
C22_Witness ==
    \E idx \in ConvIdx :
      /\ Len(results[idx]) = 2
      /\ results[idx][1].question[2] < results[idx][2].question[2]

(***************************************************************************)
(* Claims about the prompt and the context of one question (checked under  *)
(* SpecQuestion).                                                          *)
(***************************************************************************)

\* The prompts the completion service was called with by MemorySearch.
Mem0Prompts == IF q_entry = "mem0" THEN Range(completions) ELSE {}

\* C23: the display name answer_question puts in the prompt for the identity
\* f"{speaker_name}_{conversation_index}" is the speaker name, whatever the
\* name and the index are.
C23_DisplayName ==
    \A prompt \in Mem0Prompts :
      /\ prompt.speaker_1_user_id = q_speakers[1]
      /\ prompt.speaker_2_user_id = q_speakers[2]

\* What the graph search of the current question returned.
ZepFound == search_log[1].memories

\* The validity endpoint a fact is to show: the value, or the word that
\* stands for an absent one.
Shown(endpoint, absent) == IF endpoint = Null THEN absent ELSE endpoint

\* The line a fact is to be rendered as.
FactLine(edge) ==
    <<"  - ", edge.fact, " (", Shown(edge.valid_at, "date unknown"), " - ",
      Shown(edge.invalid_at, "present"), ")">>

EntityLine(node) == <<"  - ", node.name, ": ", node.summary>>

StartsWith(line, start) ==
    /\ Len(start) <= Len(line)
    /\ SubSeq(line, 1, Len(start)) = start

\* Where the lines of the facts begin in the context, and where those of the
\* entities begin (a list without elements takes one empty line).
FactsAt == Len(TEMPLATE.head)

EntitiesAt(edges) ==
    FactsAt + (IF edges = <<>> THEN 1 ELSE Len(edges)) + Len(TEMPLATE.middle)

\* C24: in the Zep context no line shows a null; every fact is rendered with
\* "date unknown" for an absent valid_at and "present" for an absent
\* invalid_at, "(date unknown - present)" when both are absent; the facts
\* stand in the order of the backend's edges, the entities in the order of
\* its nodes, every fact before every entity.
C24_FactRendering ==
    (q_entry = "zep" /\ context # <<>>) =>
      LET edges == ZepFound.edges
          nodes == ZepFound.nodes
      IN  /\ \A k \in DOMAIN context : Null \notin Range(context[k])
          /\ Len(context) >= EntitiesAt(edges) + Len(nodes)
          /\ \A k \in DOMAIN edges :
               /\ StartsWith(context[FactsAt + k], FactLine(edges[k]))
               /\ (edges[k].valid_at = Null /\ edges[k].invalid_at = Null) =>
                     SubSeq(context[FactsAt + k], 3, 7) =
                        <<" (", "date unknown", " - ", "present", ")">>
          /\ \A k \in DOMAIN nodes :
               StartsWith(context[EntitiesAt(edges) + k], EntityLine(nodes[k]))
          /\ \A k \in DOMAIN edges : \A j \in DOMAIN nodes :
               FactsAt + k < EntitiesAt(edges) + j

\* C24 happens: the context of two facts, the first with no validity
\* endpoint at all and the second with both, and of two entities has been
\* composed and put in the result.
C24_Witness ==
    /\ q_entry = "zep"
    /\ zep_result # <<>>
    /\ zep_result.context = context
    /\ Len(ZepFound.edges) = 2
    /\ ZepFound.edges[1].valid_at = Null
    /\ ZepFound.edges[1].invalid_at = Null
    /\ ZepFound.edges[2].valid_at # Null
    /\ ZepFound.edges[2].invalid_at # Null
    /\ ZepFound.nodes = <<[name |-> "n2", summary |-> "s2"], [name |-> "n1", summary |-> "s1"]>>

\* The Zep context of a search that found nothing: the template with its
\* headers, nothing where the facts and the entities go.
EmptyContext ==
    TEMPLATE.head \o << <<TEMPLATE.after_facts>> >> \o TEMPLATE.middle
      \o << <<TEMPLATE.after_entities>> >> \o TEMPLATE.tail

\* C25: a search that finds nothing is no failure.  Mem0: the list of that
\* speaker is rendered as the empty JSON array, the completion service is
\* called once and the record has the count 0 for that speaker.  Zep: the
\* context is the template with its section headers and nothing below them,
\* the completion service is called once with it and the record holds it.
C25_EmptySearch ==
    /\ q_entry = "mem0" =>
         /\ \A prompt \in Mem0Prompts :
              /\ speaker_1_memories = <<>> =>
                   prompt.speaker_1_memories = [open |-> "[", items |-> <<>>, close |-> "]"]
              /\ speaker_2_memories = <<>> =>
                   prompt.speaker_2_memories = [open |-> "[", items |-> <<>>, close |-> "]"]
         /\ qpc \in {"save", "returned"} =>
              /\ Len(completions) = 1
              /\ result # <<>>
              /\ speaker_1_memories = <<>> => result.num_speaker_1_memories = 0
              /\ speaker_2_memories = <<>> => result.num_speaker_2_memories = 0
    /\ (q_entry = "zep" /\ search_log # <<>>
          /\ ZepFound.edges = <<>> /\ ZepFound.nodes = <<>>) =>
         /\ context = EmptyContext
         /\ \A prompt \in Range(completions) : prompt.memories = EmptyContext
         /\ qpc = "returned" =>
              /\ Len(completions) = 1
              /\ zep_result # <<>>
              /\ zep_result.context = EmptyContext

\* C25 happens: both searches of a Mem0 question found nothing and the
\* question has its record.
C25_Witness ==
    /\ q_entry = "mem0"
    /\ qpc = "returned"
    /\ Len(search_log) = 2
    /\ search_log[1].memories = <<>>
    /\ search_log[2].memories = <<>>
    /\ result.num_speaker_1_memories = 0
    /\ result.num_speaker_2_memories = 0
    /\ Len(completions) = 1

\* The rendered entries of a retrieved list are its memories in order, each
\* as timestamp, ": " and text, with no score in it.
RenderedAs(items, found) ==
    /\ Len(items) = Len(found)
    /\ \A k \in DOMAIN found :
         /\ items[k] = <<found[k].timestamp, ": ", found[k].memory>>
         /\ ToString(found[k].score) \notin Range(items[k])

\* The record holds the retrieved list, every memory with its score.
KeptWithScore(kept, found) ==
    /\ Len(kept) = Len(found)
    /\ \A k \in DOMAIN found :
         /\ kept[k].memory = found[k].memory
         /\ kept[k].score = found[k].score

\* C26: in the Mem0 prompt the context of each speaker has one entry per
\* memory the search of that speaker returned, in that order, each
\* "<timestamp>: <text>" without the score; the record has the same lists
\* with the scores.
C26_RankedContext ==
    q_entry = "mem0" =>
      /\ \A prompt \in Mem0Prompts :
           /\ RenderedAs(prompt.speaker_1_memories.items, search_log[1].memories)
           /\ RenderedAs(prompt.speaker_2_memories.items, search_log[2].memories)
      /\ result # <<>> =>
           /\ KeptWithScore(result.speaker_1_memories, search_log[1].memories)
           /\ KeptWithScore(result.speaker_2_memories, search_log[2].memories)

\* C26 happens: the first search returned m2 before m1, the prompt was
\* rendered and the record built.
C26_Witness ==
    /\ q_entry = "mem0"
    /\ result # <<>>
    /\ Len(completions) = 1
    /\ Len(search_log[1].memories) = 2
    /\ search_log[1].memories[1].memory = "m2"
    /\ search_log[1].memories[1].score = 29
    /\ search_log[1].memories[2].memory = "m1"
    /\ completions[1].speaker_1_memories.items = << <<"t2", ": ", "m2">>, <<"t1", ": ", "m1">> >>

\* How many searches answer_question makes before it renders the prompt.
SearchesNeeded == IF q_entry = "mem0" THEN 2 ELSE 1

\* C29: the completion service is called at most once for a question, and
\* only when every search of the question has returned; a record exists only
\* after that one call; when a search has raised there is no call and no
\* record.
C29_OneCompletion ==
    q_entry \in {"mem0", "zep"} =>
      /\ Len(completions) <= 1
      /\ completions # <<>> => Len(search_log) = SearchesNeeded
      /\ (result # <<>> \/ zep_result # <<>>) => Len(completions) = 1
      /\ (qpc = "raised" /\ Len(search_log) < SearchesNeeded) =>
            /\ completions = <<>>
            /\ result = <<>>
            /\ zep_result = <<>>
      /\ q_entry = "mem0" =>
            \A k \in DOMAIN search_log :
              search_log[k].user_id = IF k = 1 THEN speaker_1_user_id ELSE speaker_2_user_id

\* C29 happens: the second search of a Mem0 question has exhausted its
\* retries after the first had returned.
C29_Witness ==
    /\ q_entry = "mem0"
    /\ qpc = "raised"
    /\ Len(search_log) = 1
    /\ completions = <<>>
    /\ result = <<>>

(***************************************************************************)
(* Claims about the calls of one ingestion (checked under                  *)
(* SpecConversation).                                                      *)
(***************************************************************************)

\* The least number of batches of at most b messages that hold n messages.
Ceiling(n, b) == (n + b - 1) \div b

RECURSIVE Concatenated(_)
\* The batches of a list of add_memory calls, one after the other.
Concatenated(batches) ==
    IF batches = <<>> THEN <<>>
    ELSE Head(batches) \o Concatenated(Tail(batches))

\* C27: the add_memory calls of one thread (one identity, one segment) carry
\* runs of 1 to batch_size messages each, which put together are the
\* beginning of the thread's message list; once add_memories_for_speaker has
\* returned there were ceil(n / batch_size) calls, none for an empty list,
\* and the runs put together are the whole list.
C27_Batches ==
    \A s \in DOMAIN thr : \A x \in Sides :
      LET t == thr[s][x]
          sent == Concatenated(t.batches)
      IN  /\ \A k \in DOMAIN t.batches : Len(t.batches[k]) \in 1..batch_size
          /\ Len(sent) <= Len(t.messages)
          /\ sent = SubSeq(t.messages, 1, Len(sent))
          /\ Len(t.batches) <= Ceiling(Len(t.messages), batch_size)
          /\ t.st = "done" =>
                /\ Len(t.batches) = Ceiling(Len(t.messages), batch_size)
                /\ sent = t.messages

\* C27 happens: with batch size 1 a thread has sent the two messages of its
\* segment in two calls and has ended.
C27_Witness ==
    /\ batch_size = 1
    /\ \E s \in DOMAIN thr : \E x \in Sides :
         /\ thr[s][x].st = "done"
         /\ Len(thr[s][x].messages) = 2
         /\ Len(thr[s][x].batches) = 2

\* The delete_all calls of this run made for the identity of side x.
DeletesOf(x) == {k \in DOMAIN deletes : deletes[k].user_id = UserId(x)}

\* A thread of the run has been started, so an add call may have been made.
Adding == \E s \in DOMAIN thr : \E x \in Sides : thr[s][x].st # "unstarted"

\* C28: in one run of process_conversation delete_all is called at most
\* once for each identity; once the run is past the two calls, and whenever
\* a thread that adds memories exists, it has been called once for speaker
\* A's identity and then once for speaker B's, and both calls have returned.
C28_ResetFirst ==
    /\ \A x \in Sides : Cardinality(DeletesOf(x)) <= 1
    /\ (Adding \/ ppc \in {"keys", "join", "returned"}) =>
          deletes = <<[user_id |-> speaker_a_user_id, ok |-> TRUE],
                      [user_id |-> speaker_b_user_id, ok |-> TRUE]>>

\* C28 happens: in the second run of a conversation an add call is in
\* flight, the two resets of that run done.
C28_Witness ==
    /\ run = 2
    /\ Len(deletes) = 2
    /\ \E s \in DOMAIN thr : \E x \in Sides : Calling(s, x)

(***************************************************************************)
(* Claims about the worker pools (checked under SpecWorkerPools).          *)
(***************************************************************************)

\* The questions a worker of process_questions_parallel is answering.
BeingAnswered == {j \in DOMAIN fut : fut[j] = "running"}

\* C30: never more than max_workers conversations are inside
\* process_conversation at once, never more than max_workers questions are
\* being answered at once by process_questions_parallel; with its default
\* of one worker a question is started only when every question before it in
\* the list has ended, and nothing after it has been started.
C30_BoundedPools ==
    /\ ipc # "idle" => Cardinality(InPool) <= ing_workers
    /\ entry = "process_questions_parallel" =>
         /\ Cardinality(BeingAnswered) <= max_workers
         /\ max_workers = DefaultQuestionWorkers =>
              \A j \in BeingAnswered :
                /\ \A i \in 1..(j - 1) : fut[i] \in {"done", "failed"}
                /\ \A i \in (j + 1)..Len(fut) : fut[i] \in {"pending", "cancelled"}

\* C30 happens: with one worker the second question of the list is being
\* answered after the first has ended.
C30_Witness ==
    /\ entry = "process_questions_parallel"
    /\ max_workers = DefaultQuestionWorkers
    /\ Len(fut) = 2
    /\ fut[1] = "done"
    /\ fut[2] = "running"

(***************************************************************************)
(* More claims about the retry wrappers (checked under SpecRetry).         *)
(***************************************************************************)

\* C33: a wrapper that has returned has made a backend call that succeeded,
\* whatever its attempt budget is, 0 included: add_memory one add call,
\* search_memory one search call (Zep: its two searches of one attempt).
C33_ReturnAfterSuccess ==
    rpc = "returned" =>
      /\ calls # <<>>
      /\ calls[Len(calls)].ok

(***************************************************************************)
(* More claims about one ingestion (checked under SpecConversation).       *)
(***************************************************************************)

\* The delete_all calls of this run that failed.
FailedDeletes == {k \in DOMAIN deletes : ~deletes[k].ok}

\* C34: when a delete_all call has failed, process_conversation has raised
\* with that failure; the failed call is the last delete_all of the run, no
\* identity was reset twice, no thread that adds memories was started, and
\* when it was speaker A's reset that failed, speaker B's was never called.
C34_ResetFailure ==
    FailedDeletes # {} =>
      /\ ppc = "raised"
      /\ perror = <<"delete_all">>
      /\ FailedDeletes = {Len(deletes)}
      /\ \A x \in Sides : Cardinality(DeletesOf(x)) <= 1
      /\ \A s \in DOMAIN thr : \A x \in Sides : thr[s][x].st = "unstarted"
      /\ ~deletes[1].ok => deletes = <<[user_id |-> speaker_a_user_id, ok |-> FALSE]>>

\* C34 happens: the reset of speaker A's identity has failed for a
\* conversation that has a segment to add.
C34_Witness ==
    /\ item.segments # <<>>
    /\ item.segments[1].chats # <<>>
    /\ deletes = <<[user_id |-> speaker_a_user_id, ok |-> FALSE]>>
    /\ ppc = "raised"

(***************************************************************************)
(* Claims about the Zep ingestion (checked under SpecIngestion).           *)
(***************************************************************************)

RECURSIVE ZepMessagesFrom(_, _)
\* The messages process_conversation of ZepAdd builds for the turns of a
\* segment list from segment s on, in segment and turn order.
ZepMessagesFrom(segments, s) ==
    IF s > Len(segments) THEN <<>>
    ELSE [k \in DOMAIN segments[s].chats |->
            [role |-> "user",
             content |-> <<segments[s].date_time, segments[s].chats[k].speaker,
                           segments[s].chats[k].text>>]]
         \o ZepMessagesFrom(segments, s + 1)

RECURSIVE Repeated(_, _)
\* n copies of a list, one after the other.
Repeated(list, n) == IF n = 0 THEN <<>> ELSE list \o Repeated(list, n - 1)

\* The thread.add_messages calls made, and those of them that returned.
ZepAddCalls == SelectSeq(zcalls, LAMBDA c : c.op = "thread.add_messages")

ZepAdded(id) == SelectSeq(ZepAddCalls, LAMBDA c : c.ok /\ c.of = id)

\* What the Zep backend holds in a thread: the messages of the calls that
\* returned, in the order of the calls.
ZepThread(id) == Concatenated([k \in DOMAIN ZepAdded(id) |-> ZepAdded(id)[k].messages])

FirstConversationMessages == ZepMessagesFrom(zep_data[1].segments, 1)

\* C35: the Zep ingestion calls nothing but get, add/create and add_messages
\* (no delete, no reset); user.add is called only right after a user.get that
\* failed and thread.create only right after a thread.get that failed; every
\* add_messages call carries one message; and when main has returned for the
\* n-th time under the same run_id the thread holds the conversation's
\* messages n times over.
C35_Reingestion ==
    /\ \A k \in DOMAIN zcalls :
         /\ zcalls[k].op \in {"user.get", "user.add", "thread.get", "thread.create",
                              "thread.add_messages"}
         /\ zcalls[k].op = "user.add" =>
              /\ k > 1
              /\ zcalls[k - 1] = ZepCall("user.get", zcalls[k].of, FALSE)
         /\ zcalls[k].op = "thread.create" =>
              /\ k > 1
              /\ zcalls[k - 1] = ZepCall("thread.get", zcalls[k].of, FALSE)
    /\ \A k \in DOMAIN ZepAddCalls : Len(ZepAddCalls[k].messages) = 1
    /\ zpc = "returned" =>
         ZepThread(<<"thread", 0>>) = Repeated(FirstConversationMessages, zrun)

\* C35 happens: a conversation of two turns or more was ingested a second
\* time and every message of it is in the thread twice.
C35_Witness ==
    /\ zpc = "returned"
    /\ zrun = 2
    /\ Len(FirstConversationMessages) >= 2
    /\ ZepThread(<<"thread", 0>>) = FirstConversationMessages \o FirstConversationMessages

\* The messages of all add_messages calls, failed ones included.
ZepSent == Concatenated([k \in DOMAIN ZepAddCalls |-> ZepAddCalls[k].messages])

\* C36: every call to the Zep client is for conversation index 0, and the
\* messages sent are, one per call, the messages of conversation 0 in segment
\* and turn order (from the start again in every run of main).
C36_FirstConversationOnly ==
    /\ \A k \in DOMAIN zcalls : zcalls[k].of[2] = 0
    /\ zcalls # <<>> =>
         /\ Len(ZepSent) = Len(ZepAddCalls)
         /\ Len(ZepSent) <= zrun * Len(FirstConversationMessages)
         /\ ZepSent = SubSeq(Repeated(FirstConversationMessages, zrun), 1, Len(ZepSent))

\* C36 happens: a dataset of two conversations was walked to its end and the
\* two turns or more of conversation 0 were sent, none of conversation 1.
C36_Witness ==
    /\ Len(zep_data) >= 2
    /\ zep_data[2].segments # <<>>
    /\ zpc = "returned"
    /\ zidx = Len(zep_data)
    /\ Len(ZepSent) >= 2

(***************************************************************************)
(* The statistics script: main, collect_metrics and calculate_stats of     *)
(* calculate_statistics.py.  A JSON value is a tuple: <<>> for a key that  *)
(* is not there, <<"null">>, <<"int", n>> or <<"float", n>>.  A group name *)
(* is the sequence of the pieces its f-string puts together.  mean,        *)
(* variance and std_dev are real numbers and are not carried.              *)
(***************************************************************************)

\* Most question records in a results file.
MaxRecords == 2

\* The records tried carry the first MaxMetrics metrics, the others are absent.
MaxMetrics == 2

\* calculate_statistics.py:49-56.
metric_names ==
    <<"f1_score", "bleu_score", "llm_score", "search_time", "response_time", "total_latency">>

MetricNames == {metric_names[k] : k \in DOMAIN metric_names}

JsonNull == <<"null">>

JsonNumbers == {<<"int", 1>>, <<"float", 2>>}

\* float(value) of a JSON number.
float(value) == <<"float", value[2]>>

\* The categories of the records tried: 1, 2, or no "category" key.
StatCategories == {<<1>>, <<2>>, NoKey}

StatRecords(m) ==
    {[category |-> c,
      metrics |-> [name \in MetricNames |->
                     IF \E k \in DOMAIN v : metric_names[k] = name
                       THEN v[CHOOSE k \in DOMAIN v : metric_names[k] = name]
                       ELSE NoKey]] :
       c \in StatCategories, v \in [1..m -> {NoKey, JsonNull} \cup JsonNumbers]}

RECURSIVE StatData(_, _, _)
\* The results files of at most nc conversations and nr records in all.
StatData(nc, nr, m) ==
    IF nc = 0 THEN {<<>>}
    ELSE {<<>>} \cup
         UNION {{<<first>> \o rest : rest \in StatData(nc - 1, nr - Len(first), m)} :
                  first \in SeqsUpTo(StatRecords(m), nr)}

\* calculate_statistics.py:139-141: the input file is loaded.
InitStatisticsInputs ==
    /\ stat_data \in StatData(MaxConvs, MaxRecords, MaxMetrics)
    /\ spc = "collect"
    /\ s_conv = 0
    /\ s_question = 0
    /\ metrics_by_category = <<>>
    /\ all_statistics = <<>>

\* calculate_statistics.py:61, 69: f"category_{category}" with
\* question_data.get("category", "unknown").
category_group(c) == <<"category_">> \o (IF c = NoKey THEN <<"unknown">> ELSE str(c[1]))

overall == <<"overall">>

\* metrics_by_category[group][metric].append(value) on the defaultdict of
\* defaultdicts of lists (calculate_statistics.py:46).
defaultdict_append(m, group, metric, value) ==
    LET of_group == IF group \in DOMAIN m THEN m[group] ELSE <<>>
        list == IF metric \in DOMAIN of_group THEN of_group[metric] ELSE <<>>
    IN [g \in DOMAIN m \cup {group} |->
          IF g = group
            THEN [n \in DOMAIN of_group \cup {metric} |->
                    IF n = metric THEN Append(list, value) ELSE of_group[n]]
            ELSE m[g]]

collect_metric_category_only(m, question_data, metric) ==
    LET value == question_data.metrics[metric] IN
      IF value # NoKey /\ value # JsonNull
        THEN defaultdict_append(m, category_group(question_data.category), metric, float(value))
        ELSE m

\* calculate_statistics.py:65-71: the body of the loop over metric_names.
collect_metric(m, question_data, metric) ==
    LET value == question_data.metrics[metric] IN
      IF value # NoKey /\ value # JsonNull
        THEN defaultdict_append(
               defaultdict_append(m, category_group(question_data.category), metric,
                                  float(value)),
               overall, metric, float(value))
        ELSE m

RECURSIVE collect_question(_, _, _)
\* calculate_statistics.py:64: the loop over metric_names from the k-th on.
collect_question(m, question_data, k) ==
    IF k > Len(metric_names) THEN m
    ELSE collect_question(collect_metric(m, question_data, metric_names[k]), question_data, k + 1)

\* calculate_statistics.py:59-60: the next conversation of data.items(), or
\* the end of collect_metrics.
collect_metrics_conversation ==
    /\ spc = "collect"
    /\ IF s_conv = 0 THEN TRUE ELSE s_question = Len(stat_data[s_conv])
    /\ IF s_conv < Len(stat_data)
         THEN /\ s_conv' = s_conv + 1
              /\ s_question' = 0
              /\ UNCHANGED spc
         ELSE /\ spc' = "calculate"
              /\ UNCHANGED <<s_conv, s_question>>
    /\ UNCHANGED <<stat_data, metrics_by_category, all_statistics>>
    /\ UNCHANGED OutsideStatistics

\* calculate_statistics.py:60-71: the next question record of the
\* conversation.
collect_metrics_question ==
    /\ spc = "collect"
    /\ s_conv >= 1
    /\ s_question < Len(stat_data[s_conv])
    /\ s_question' = s_question + 1
    /\ metrics_by_category' =
         collect_question(metrics_by_category, stat_data[s_conv][s_question + 1], 1)
    /\ UNCHANGED <<stat_data, spc, s_conv, all_statistics>>
    /\ UNCHANGED OutsideStatistics

StatMin(a, b) == IF a <= b THEN a ELSE b

StatMax(a, b) == IF a >= b THEN a ELSE b

RECURSIVE min(_)
min(values) ==
    IF Len(values) = 1 THEN values[1][2] ELSE StatMin(values[1][2], min(Tail(values)))

RECURSIVE max(_)
max(values) ==
    IF Len(values) = 1 THEN values[1][2] ELSE StatMax(values[1][2], max(Tail(values)))

\* calculate_statistics.py:22-41.
calculate_stats(values) ==
    IF values = <<>>
      THEN [count |-> 0, min |-> 0, max |-> 0]
      ELSE [count |-> Len(values), min |-> min(values), max |-> max(values)]

\* calculate_statistics.py:147-154: the statistics of every list collected.
main_calculate ==
    /\ spc = "calculate"
    /\ all_statistics' =
         [g \in DOMAIN metrics_by_category |->
            [n \in DOMAIN metrics_by_category[g] |-> calculate_stats(metrics_by_category[g][n])]]
    /\ spc' = "returned"
    /\ UNCHANGED <<stat_data, s_conv, s_question, metrics_by_category>>
    /\ UNCHANGED OutsideStatistics

NextStatistics ==
    \/ collect_metrics_conversation
    \/ collect_metrics_question
    \/ main_calculate

InitStatistics ==
    /\ InitStatisticsInputs
    /\ RetryIdle
    /\ AnswerIdle
    /\ PoolIdle
    /\ ConversationIdle
    /\ ZepAddIdle
    /\ QuestionIdle
    /\ KeysIdle

SpecStatistics == InitStatistics /\ [][NextStatistics]_vars

(***************************************************************************)
(* Claims about the statistics script (checked under SpecStatistics).      *)
(***************************************************************************)

RECURSIVE StatFlat(_)
StatFlat(conversations) ==
    IF conversations = <<>> THEN <<>>
    ELSE Head(conversations) \o StatFlat(Tail(conversations))

\* The records collect_metrics has gone through, in order.
StatProcessed ==
    IF s_conv = 0 THEN <<>>
    ELSE StatFlat(SubSeq(stat_data, 1, s_conv - 1)) \o SubSeq(stat_data[s_conv], 1, s_question)

\* The record has a value of the metric that is not null.
HasValue(question_data, metric) ==
    /\ question_data.metrics[metric] # NoKey
    /\ question_data.metrics[metric] # JsonNull

\* The values of a metric the records of a list have, as floats.
StatValues(records, metric) ==
    LET having == SelectSeq(records, LAMBDA r : HasValue(r, metric))
    IN [k \in DOMAIN having |-> float(having[k].metrics[metric])]

\* The list collected for a group and a metric; none is an empty one.
Collected(group, metric) ==
    IF group \in DOMAIN metrics_by_category /\ metric \in DOMAIN metrics_by_category[group]
      THEN metrics_by_category[group][metric]
      ELSE <<>>

CategoryGroups == {category_group(c) : c \in StatCategories}

RECURSIVE SumOfCounts(_, _)
SumOfCounts(groups, metric) ==
    IF groups = {} THEN 0
    ELSE LET g == CHOOSE x \in groups : TRUE
         IN Len(Collected(g, metric)) + SumOfCounts(groups \ {g}, metric)

\* C38: for every metric, the list of "overall" holds the non-null values of
\* the records gone through, the list of a category group those of the
\* records of that category, a record without the value or with null is in
\* neither, the count of "overall" is the sum of the counts of the category
\* groups, and calculate_stats reports the length of the list as count.
C38_Groups ==
    /\ DOMAIN metrics_by_category \subseteq CategoryGroups \cup {overall}
    /\ \A metric \in MetricNames :
         /\ Collected(overall, metric) = StatValues(StatProcessed, metric)
         /\ \A c \in StatCategories :
              Collected(category_group(c), metric) =
                StatValues(SelectSeq(StatProcessed, LAMBDA r : r.category = c), metric)
         /\ Len(Collected(overall, metric)) =
              SumOfCounts(DOMAIN metrics_by_category \ {overall}, metric)
    /\ spc = "returned" =>
         /\ DOMAIN all_statistics = DOMAIN metrics_by_category
         /\ \A g \in DOMAIN all_statistics :
              /\ DOMAIN all_statistics[g] = DOMAIN metrics_by_category[g]
              /\ \A n \in DOMAIN all_statistics[g] :
                   all_statistics[g][n].count = Len(metrics_by_category[g][n])

\* C38 happens: two records of different categories, one of them without a
\* "category" key, have an f1_score, one of them has a null bleu_score, and
\* the statistics count two values overall and one in each category.
C38_Witness ==
    /\ spc = "returned"
    /\ Len(StatProcessed) = 2
    /\ StatProcessed[1].category = NoKey
    /\ StatProcessed[2].category = <<1>>
    /\ HasValue(StatProcessed[1], "f1_score")
    /\ HasValue(StatProcessed[2], "f1_score")
    /\ StatProcessed[1].metrics["bleu_score"] = JsonNull
    /\ all_statistics[overall]["f1_score"].count = 2
    /\ all_statistics[category_group(NoKey)]["f1_score"].count = 1
    /\ all_statistics[category_group(<<1>>)]["f1_score"].count = 1
    /\ "bleu_score" \notin DOMAIN all_statistics[category_group(NoKey)]

(***************************************************************************)
(* Keys and identities: the key loop of process_conversation of MemoryADD  *)
(* and the user ids of add.py and search.py, with every string a sequence  *)
(* of characters.  Two entries of the dataset are followed, one after the  *)
(* other; a segment that is processed is one step that adds its turns      *)
(* under both user ids (its threads and batches are SpecConversation's).   *)
(***************************************************************************)

\* Largest idx of a followed entry of the dataset.
MaxIndex == 10

speaker_a_key == <<"s", "p", "e", "a", "k", "e", "r", "_", "a">>

speaker_b_key == <<"s", "p", "e", "a", "k", "e", "r", "_", "b">>

date_time_suffix == <<"_", "d", "a", "t", "e", "_", "t", "i", "m", "e">>

\* The segment keys tried.
session_1 == <<"s", "e", "s", "s", "i", "o", "n", "_", "1">>

chat_2 == <<"c", "h", "a", "t", "_", "2">>

update_1 == <<"u", "p", "d", "a", "t", "e", "_", "1">>

timestamps == <<"t", "i", "m", "e", "s", "t", "a", "m", "p", "s">>

SegmentKeys == {session_1, chat_2, update_1, timestamps}

\* The speaker names tried.
KeyNames == {<<"A">>, <<"A", "_", "1">>, <<"A", "1">>}

\* Python's `sub in s` on strings.
Contains(sub, s) ==
    \E i \in 1..(Len(s) - Len(sub) + 1) : SubSeq(s, i, i + Len(sub) - 1) = sub

\* The segments of a conversation: each a key, with its <key>_date_time
\* entry or without it; no key twice.
KeySegmentLists(n) ==
    {l \in SeqsUpTo([key : SegmentKeys, date_time : BOOLEAN], n) :
       \A i, j \in DOMAIN l : i # j => l[i].key # l[j].key}

RECURSIVE KeysOfSegments(_)
\* conversation.keys() of the segments: a segment's <key>_date_time, where
\* it has one, comes before its key.
KeysOfSegments(l) ==
    IF l = <<>> THEN <<>>
    ELSE (IF Head(l).date_time THEN <<Head(l).key \o date_time_suffix>> ELSE <<>>)
         \o <<Head(l).key>> \o KeysOfSegments(Tail(l))

KeyEntry(i, a, b, l) ==
    [idx |-> i, speaker_a |-> a, speaker_b |-> b,
     keys |-> <<speaker_a_key, speaker_b_key>> \o KeysOfSegments(l)]

\* The pairs of entries tried: any segment keys under fixed names and
\* indexes, or any names and indexes with one segment.
KeyDatasets(n, top) ==
    {<<KeyEntry(0, <<"A">>, <<"A", "1">>, l1), KeyEntry(1, <<"A">>, <<"A", "1">>, l2)>> :
       l1 \in KeySegmentLists(n), l2 \in KeySegmentLists(n)}
    \cup
    {<<KeyEntry(i[1], a1, b1, <<[key |-> session_1, date_time |-> TRUE]>>),
       KeyEntry(i[2], a2, b2, <<[key |-> session_1, date_time |-> TRUE]>>)>> :
       i \in {p \in {0, 1, top} \X {0, 1, top} : p[1] # p[2]},
       a1 \in KeyNames, b1 \in KeyNames, a2 \in KeyNames, b2 \in KeyNames}

\* add.py:61-67, search.py:219-221: the dataset is loaded.
InitKeysInputs ==
    /\ k_items \in KeyDatasets(MaxSegments, MaxIndex)
    /\ k_at = 1
    /\ kpc = "start"
    /\ k_key = 0
    /\ k_errors = <<>>
    /\ k_calls = <<>>
    /\ k_searches = <<>>

mem0_user_id_without_separator(speaker, idx_) == speaker \o str(idx_)

\* add.py:124-125: f"{speaker_a}_{idx}".
mem0_user_id(speaker, idx_) == speaker \o <<"_">> \o str(idx_)

KeyCall(op, speaker, on) ==
    [op |-> op, user_id |-> mem0_user_id(speaker, k_items[k_at].idx), speaker |-> speaker,
     idx |-> k_items[k_at].idx, key |-> on]

\* add.py:120-129: the user ids are built and both are reset.
key_process_conversation_start ==
    /\ kpc = "start"
    /\ kpc' = "keys"
    /\ k_key' = 0
    /\ k_calls' = k_calls \o <<KeyCall("delete_all", k_items[k_at].speaker_a, <<>>),
                               KeyCall("delete_all", k_items[k_at].speaker_b, <<>>)>>
    /\ UNCHANGED <<k_items, k_at, k_errors, k_searches>>
    /\ UNCHANGED OutsideKeys

\* add.py:132: the keys the loop passes over.
key_skipped(key) ==
    \/ key \in {speaker_a_key, speaker_b_key}
    \/ Contains(<<"d", "a", "t", "e">>, key)
    \/ Contains(<<"t", "i", "m", "e", "s", "t", "a", "m", "p">>, key)

\* add.py:131-164: the next key of conversation.keys(): passed over, or its
\* timestamp is looked up and its turns are added under both user ids; after
\* the last key process_conversation returns.
key_process_conversation_key ==
    /\ kpc = "keys"
    /\ LET keys == k_items[k_at].keys IN
         IF k_key < Len(keys)
           THEN LET key == keys[k_key + 1] IN
                  /\ k_key' = k_key + 1
                  /\ IF key_skipped(key)
                       THEN UNCHANGED <<kpc, k_errors, k_calls>>
                       ELSE IF \E j \in DOMAIN keys : keys[j] = key \o date_time_suffix
                              THEN /\ k_calls' =
                                        k_calls \o <<KeyCall("add", k_items[k_at].speaker_a, key),
                                                     KeyCall("add", k_items[k_at].speaker_b, key)>>
                                   /\ UNCHANGED <<kpc, k_errors>>
                              ELSE /\ k_errors' = Append(k_errors, [at |-> k_at,
                                                                    error |-> <<"KeyError">>])
                                   /\ kpc' = "done"
                                   /\ UNCHANGED k_calls
           ELSE /\ kpc' = "done"
                /\ UNCHANGED <<k_key, k_errors, k_calls>>
    /\ UNCHANGED <<k_items, k_at, k_searches>>
    /\ UNCHANGED OutsideKeys

\* add.py:179-182: the pool runs process_conversation for the other entry as
\* well, whatever the first one did; search.py is run after the ingestion.
key_process_all_conversations_next ==
    /\ kpc = "done"
    /\ IF k_at < Len(k_items)
         THEN /\ k_at' = k_at + 1
              /\ kpc' = "start"
         ELSE /\ k_at' = 1
              /\ kpc' = "search"
    /\ k_key' = 0
    /\ UNCHANGED <<k_items, k_errors, k_calls, k_searches>>
    /\ UNCHANGED OutsideKeys

\* search.py:225-249: process_data_file builds the two user ids of the entry
\* and its questions are searched under them.
key_process_data_file ==
    /\ kpc = "search"
    /\ LET it == k_items[k_at] IN
         k_searches' = k_searches \o
           <<[user_id |-> speaker_user_id(it.speaker_a, it.idx), speaker |-> it.speaker_a,
              idx |-> it.idx],
             [user_id |-> speaker_user_id(it.speaker_b, it.idx), speaker |-> it.speaker_b,
              idx |-> it.idx]>>
    /\ IF k_at < Len(k_items)
         THEN /\ k_at' = k_at + 1
              /\ UNCHANGED kpc
         ELSE /\ kpc' = "returned"
              /\ UNCHANGED k_at
    /\ UNCHANGED <<k_items, k_key, k_errors, k_calls>>
    /\ UNCHANGED OutsideKeys

NextKeys ==
    \/ key_process_conversation_start
    \/ key_process_conversation_key
    \/ key_process_all_conversations_next
    \/ key_process_data_file

InitKeys ==
    /\ InitKeysInputs
    /\ RetryIdle
    /\ AnswerIdle
    /\ PoolIdle
    /\ ConversationIdle
    /\ ZepAddIdle
    /\ QuestionIdle
    /\ StatisticsIdle

SpecKeys == InitKeys /\ [][NextKeys]_vars

(***************************************************************************)
(* Claims about keys and identities (checked under SpecKeys).              *)
(***************************************************************************)

\* The key is the <key>_date_time entry of a key of the conversation.
IsDateTimeKey(key, keys) == \E j \in DOMAIN keys : key = keys[j] \o date_time_suffix

\* The entry has been gone through by process_conversation without an error.
KeyIngested(i) ==
    /\ \/ k_at > i
       \/ kpc \in {"search", "returned"}
       \/ k_at = i /\ kpc = "done"
    /\ \A e \in DOMAIN k_errors : k_errors[e].at # i

KeyAdded(i, speaker, key) ==
    \E c \in DOMAIN k_calls :
      k_calls[c] = [op |-> "add", user_id |-> mem0_user_id(speaker, k_items[i].idx),
                    speaker |-> speaker, idx |-> k_items[i].idx, key |-> key]

\* C31: when process_conversation has gone through an entry without an
\* error, the turns under every key of it other than speaker_a, speaker_b
\* and the <key>_date_time entries have been added under both user ids.
C31_EverySegmentAdded ==
    \A i \in DOMAIN k_items :
      KeyIngested(i) =>
        \A j \in DOMAIN k_items[i].keys :
          LET key == k_items[i].keys[j] IN
            (/\ key \notin {speaker_a_key, speaker_b_key}
             /\ ~IsDateTimeKey(key, k_items[i].keys)) =>
              /\ KeyAdded(i, k_items[i].speaker_a, key)
              /\ KeyAdded(i, k_items[i].speaker_b, key)

KeyUses == {k_calls[c] : c \in DOMAIN k_calls}

KeySearches == {k_searches[c] : c \in DOMAIN k_searches}

\* C32: two uses of a user id, in the calls of the ingestion or in the
\* searches, are uses for the same speaker name and the same conversation
\* index; and the ingestion and the search of an entry use the same ids.
C32_UniqueIdentity ==
    /\ \A u1 \in KeyUses \cup KeySearches : \A u2 \in KeyUses \cup KeySearches :
         u1.user_id = u2.user_id => (u1.speaker = u2.speaker /\ u1.idx = u2.idx)
    /\ \A u \in KeySearches :
         \E c \in KeyUses : c.speaker = u.speaker /\ c.idx = u.idx /\ c.user_id = u.user_id

\* C32 happens: a speaker named A1 of conversation 0 and a speaker named A
\* of conversation 10 have been ingested and searched, under different ids.
C32_Witness ==
    /\ kpc = "returned"
    /\ \E u1 \in KeyUses : \E u2 \in KeySearches :
         /\ u1.speaker = <<"A", "1">> /\ u1.idx = 0 /\ u1.op = "add"
         /\ u2.speaker = <<"A">> /\ u2.idx = MaxIndex
         /\ u1.user_id # u2.user_id

(***************************************************************************)
(* Termination of a Mem0 ingestion run: the retry loop of add_memory, one  *)
(* conversation with its threads, and the pool of process_all_conversations*)
(* under fairness: a backend call that is out returns or raises, a thread  *)
(* or worker that can take a step is scheduled, time.sleep returns.        *)
(***************************************************************************)

InitTerminationInputs ==
    \/ /\ wrapper = "add_memory"
       /\ max_retries \in 0..MaxRetries
       /\ rpc = "loop"
       /\ retries = 0
       /\ calls = <<>>
       /\ sleeps = 0
       /\ outcome = NoOutcome
       /\ PoolIdle /\ ConversationIdle
    \/ RetryIdle /\ InitPoolInputs /\ ConversationIdle
    \/ RetryIdle /\ PoolIdle /\ InitConversationInputs /\ conv_idx = 0

NextAddMemory == add_memory_attempt \/ add_memory_loop_end \/ retry_sleep

\* One call of process_conversation.
NextProcessConversation ==
    \/ delete_all_speaker_a
    \/ delete_all_speaker_b
    \/ process_conversation_segment
    \/ add_memory_call
    \/ add_memory_response
    \/ process_conversation_join
    \/ process_conversation_return

NextTermination == NextAddMemory \/ NextProcessConversation \/ NextPool

InitTermination ==
    /\ InitTerminationInputs
    /\ AnswerIdle
    /\ ZepAddIdle
    /\ QuestionIdle
    /\ StatisticsIdle
    /\ KeysIdle

SpecTermination ==
    /\ InitTermination
    /\ [][NextTermination]_vars
    /\ WF_vars(NextAddMemory)
    /\ WF_vars(NextProcessConversation)
    /\ WF_vars(NextPool)

(***************************************************************************)
(* Claims about termination (checked under SpecTermination).               *)
(***************************************************************************)

\* add_memory is over, after no more calls than its budget.
AddMemoryOver ==
    /\ rpc \in {"returned", "raised"}
    /\ Len(calls) <= max_retries

\* process_conversation is over and no thread it started is still running.
ProcessConversationOver ==
    /\ ppc \in {"returned", "raised"}
    /\ \A s \in DOMAIN thr : \A x \in Sides : thr[s][x].st \in {"unstarted", "done", "raised"}
    /\ \A s \in DOMAIN thr : \A x \in Sides : thr[s][x].attempt < AddRetries

\* process_all_conversations is over and the pool is shut down: no
\* conversation is queued or running.
ProcessAllConversationsOver ==
    /\ ipc \in {"returned", "raised"}
    /\ \A j \in DOMAIN cpc : cpc[j] \in {"returned", "raised"}

\* C37: an add_memory that was entered ends within its budget of calls, a
\* process_conversation that was entered ends with its threads joined, and a
\* process_all_conversations that was entered ends with the pool shut down.
C37_Terminates ==
    /\ (rpc = "loop") ~> AddMemoryOver
    /\ (ppc = "delete_a") ~> ProcessConversationOver
    /\ (ipc = "start") ~> ProcessAllConversationsOver

\* C37 happens: a conversation of two segments has returned, with a thread
\* that went through its batches and memories added to the backend.
C37_Witness ==
    /\ ppc = "returned"
    /\ Len(item.segments) = 2
    /\ \E s \in DOMAIN thr : \E x \in Sides :
         /\ thr[s][x].st = "done"
         /\ Len(thr[s][x].batches) >= 1
    /\ \E u \in DOMAIN memories : memories[u] # <<>>
====
